---- MODULE Spec2Model ----
(***************************************************************************)
(* Model of the asphalt sprite packer (src/src/pack/mod.rs) together with  *)
(* the option accessors and Config::validate of src/src/config.rs,         *)
(* OldPackOptions::to_new_format and migrate_config of                     *)
(* src/src/migrate_config.rs, and the polling loop of upload_cloud of      *)
(* src/src/upload.rs.                                                      *)
(*                                                                         *)
(* Strings (file stems, sprite names) are sequences of byte values, so     *)
(* that String::cmp is the bytewise lexicographic order.  An encoded image *)
(* (Vec<u8>) is the record of what decoding it yields: whether it decodes, *)
(* its width and height, and the set of pixels with non-zero alpha.        *)
(* Option<T> is a sequence: <<>> for None, <<v>> for Some(v).              *)
(***************************************************************************)
EXTENDS Integers, Sequences, FiniteSets, Bags, TLC

VARIABLES
    assets,           \* pack_assets argument: the asset list
    options,          \* Packer.options
    pc,               \* position inside pack_assets
    sprites,          \* `sprites` / `sorted_sprites` of pack_assets
    remaining_items,  \* `remaining_items` of pack_sprites_to_atlases
    atlases,          \* `atlases` of pack_sprites_to_atlases
    result,           \* what pack_assets returned
    config,           \* the Config that Config::validate is called on
    validation,       \* what Config::validate returned
    old_pack,         \* the OldPackOptions that to_new_format is called on
    new_pack,         \* what to_new_format returned
    render_sprites,   \* `packed_sprites` of render_atlas: the placements of the page
    atlas_image,      \* `atlas_image` of render_atlas: the value of every pixel
    render_pc,        \* position inside render_atlas
    sprite_index,     \* `i` of the sprite loop of render_atlas, counted from 1
    render_ops,       \* the canvas operations render_atlas has made, in order
    upload_kind,      \* `asset.kind` of upload_cloud
    backoff,          \* `backoff` of upload_cloud, in milliseconds
    waits,            \* the durations upload_cloud has slept, in order
    poll,             \* what the last get_operation call returned
    upload_result,    \* what upload_cloud returned
    migrate_args,     \* migrate_config arguments: input_path, output_path, dry_run, force
    file_system,      \* the content of every file, None when the file is absent
    old_file_system,  \* the file system when migrate_config was called
    migrate_pc,       \* position inside migrate_config
    output_content,   \* `output_content` of migrate_config
    fs_ops,           \* the fs::copy and fs::write calls migrate_config has made, in order
    migrate_result    \* what migrate_config returned

\* the variables of render_atlas
render_vars == <<render_sprites, atlas_image, render_pc, sprite_index, render_ops>>

\* the variables of upload_cloud
upload_vars == <<upload_kind, backoff, waits, poll, upload_result>>

\* the variables of migrate_config
migrate_vars == <<migrate_args, file_system, old_file_system, migrate_pc, output_content,
                  fs_ops, migrate_result>>

vars == <<assets, options, pc, sprites, remaining_items, atlases, result,
          config, validation, old_pack, new_pack, render_vars, upload_vars,
          migrate_vars>>

\* what the steps of pack_assets do not touch
outside_pack == <<config, validation, old_pack, new_pack, render_vars, upload_vars,
                  migrate_vars>>

-----------------------------------------------------------------------------
(* Bounds of the model *)

MaxAssets == 2

MaxAnimAssets == 3

MaxPages == MaxAssets + MaxAnimAssets

-----------------------------------------------------------------------------
(* Basic values *)

None == <<>>

Some(v) == <<v>>

Min(a, b) == IF a <= b THEN a ELSE b

Max(a, b) == IF a >= b THEN a ELSE b

Size(w, h) == [width |-> w, height |-> h]

Rect(x, y, w, h) == [x |-> x, y |-> y, width |-> w, height |-> h]

\* String::cmp: -1 (Less), 0 (Equal), 1 (Greater), bytewise lexicographic
RECURSIVE StrCmp(_, _)
StrCmp(a, b) ==
    IF a = <<>> /\ b = <<>> THEN 0
    ELSE IF a = <<>> THEN -1
    ELSE IF b = <<>> THEN 1
    ELSE IF Head(a) < Head(b) THEN -1
    ELSE IF Head(a) > Head(b) THEN 1
    ELSE StrCmp(Tail(a), Tail(b))

\* u32::cmp
NumCmp(a, b) == IF a < b THEN -1 ELSE IF a > b THEN 1 ELSE 0

\* u32::next_power_of_two
RECURSIVE Pow2From(_, _)
Pow2From(p, n) == IF p >= n THEN p ELSE Pow2From(2 * p, n)

next_power_of_two(n) == Pow2From(1, n)

-----------------------------------------------------------------------------
(* Images *)

Pixels(w, h) == (0 .. (w - 1)) \X (0 .. (h - 1))

Image(w, h, opaque) == [valid |-> TRUE, w |-> w, h |-> h, opaque |-> opaque]

CorruptData == [valid |-> FALSE, w |-> 0, h |-> 0, opaque |-> {}]

-----------------------------------------------------------------------------
(* PackOptions accessors, src/src/config.rs *)

AnimatedMaxSize == 2048

padding(o) == o.mode.padding

extrude(o) == o.mode.extrude

max_size(o) ==
    IF o.mode.type = "Static" THEN o.mode.max_size
    ELSE <<AnimatedMaxSize, AnimatedMaxSize>>

power_of_two(o) == IF o.mode.type = "Static" THEN o.mode.power_of_two ELSE FALSE

page_limit(o) == IF o.mode.type = "Static" THEN o.mode.page_limit ELSE None

sort(o) == IF o.mode.type = "Static" THEN o.mode.sort ELSE "Area"

dedupe(o) == IF o.mode.type = "Static" THEN o.mode.dedupe ELSE FALSE

\* allow_trim that is on in animated mode
AllowTrimInAnimated(o) == IF o.mode.type = "Static" THEN o.mode.allow_trim ELSE TRUE

allow_trim(o) == IF o.mode.type = "Static" THEN o.mode.allow_trim ELSE FALSE

-----------------------------------------------------------------------------
(* Sprites and packable items *)

Sprite(name, data, size, hash) ==
    [name |-> name, data |-> data, size |-> size, hash |-> hash]

\* PackableItem::Static(sprite)
Static(sprite) ==
    [kind |-> "Static", sprite |-> sprite, frame_count |-> 0,
     frame_size |-> Size(0, 0), layout |-> [type |-> "None"],
     frame_duration_ms |-> 0, loops |-> FALSE]

\* PackableItem::Animated(AnimationStrip { .. })
Animated(strip_sprite, frame_count, frame_size, layout, frame_duration_ms, loops) ==
    [kind |-> "Animated", sprite |-> strip_sprite, frame_count |-> frame_count,
     frame_size |-> frame_size, layout |-> layout,
     frame_duration_ms |-> frame_duration_ms, loops |-> loops]

\* file_stem() of the asset path
file_stem(asset) == asset.path.stem

-----------------------------------------------------------------------------
(* sort_sprites *)

\* SortCompare without the name tie-breaker
SortCompareNoTieBreak(o, a, b) ==
    CASE sort(o) = "Area" ->
            NumCmp(b.sprite.size.width * b.sprite.size.height,
                   a.sprite.size.width * a.sprite.size.height)
      [] sort(o) = "MaxSide" ->
            NumCmp(Max(b.sprite.size.width, b.sprite.size.height),
                   Max(a.sprite.size.width, a.sprite.size.height))
      [] sort(o) = "Name" -> StrCmp(a.sprite.name, b.sprite.name)

\* the comparator closure handed to sort_by
SortCompare(o, a, b) ==
    LET sprite_a == a.sprite
        sprite_b == b.sprite
        primary_cmp ==
            CASE sort(o) = "Area" ->
                    NumCmp(sprite_b.size.width * sprite_b.size.height,
                           sprite_a.size.width * sprite_a.size.height)
              [] sort(o) = "MaxSide" ->
                    NumCmp(Max(sprite_b.size.width, sprite_b.size.height),
                           Max(sprite_a.size.width, sprite_a.size.height))
              [] sort(o) = "Name" -> StrCmp(sprite_a.name, sprite_b.name)
    IN  IF primary_cmp # 0 THEN primary_cmp
        ELSE StrCmp(sprite_a.name, sprite_b.name)

\* SortInsert as an unstable sort would place equal elements: the later one first
RECURSIVE SortInsertUnstable(_, _, _)
SortInsertUnstable(o, sorted, x) ==
    IF sorted = <<>> THEN <<x>>
    ELSE IF SortCompare(o, Head(sorted), x) < 0
         THEN <<Head(sorted)>> \o SortInsertUnstable(o, Tail(sorted), x)
         ELSE <<x>> \o sorted

\* slice::sort_by is a stable sort: an element goes behind every element that
\* does not compare Greater than it
RECURSIVE SortInsert(_, _, _)
SortInsert(o, sorted, x) ==
    IF sorted = <<>> THEN <<x>>
    ELSE IF SortCompare(o, Head(sorted), x) <= 0
         THEN <<Head(sorted)>> \o SortInsert(o, Tail(sorted), x)
         ELSE <<x>> \o sorted

RECURSIVE SortFrom(_, _, _)
SortFrom(o, sorted, rest) ==
    IF rest = <<>> THEN sorted
    ELSE SortFrom(o, SortInsert(o, sorted, Head(rest)), Tail(rest))

sort_sprites(o, items) == SortFrom(o, <<>>, items)

-----------------------------------------------------------------------------
(* validate_sprite_sizes *)

\* Oversize with the height comparison left out
OversizeWidthOnly(o, item) ==
    item.sprite.size.width > max_size(o)[1]

Oversize(o, item) ==
    \/ item.sprite.size.width > max_size(o)[1]
    \/ item.sprite.size.height > max_size(o)[2]

\* Ok(()) is None; Err names the first offending sprite of the list
validate_sprite_sizes(o, items) ==
    IF \E i \in 1 .. Len(items) : Oversize(o, items[i])
    THEN LET i == CHOOSE k \in 1 .. Len(items) :
                      /\ Oversize(o, items[k])
                      /\ \A j \in 1 .. (k - 1) : ~Oversize(o, items[j])
             sprite == items[i].sprite
         IN  Some([type |-> "ExceedsMaxSize", name |-> sprite.name,
                   width |-> sprite.size.width, height |-> sprite.size.height,
                   max_width |-> max_size(o)[1], max_height |-> max_size(o)[2]])
    ELSE None

-----------------------------------------------------------------------------
(* trim_sprite: returns the sprite as it is left and the Option<Rect> *)

SetMin(S) == CHOOSE m \in S : \A n \in S : m <= n

SetMax(S) == CHOOSE m \in S : \A n \in S : m >= n

trim_sprite(o, sprite) ==
    LET img == sprite.data
        unchanged == [sprite |-> sprite, original_rect |-> None]
    IN  IF ~allow_trim(o) THEN unchanged
        ELSE IF ~img.valid THEN unchanged
        ELSE IF img.w = 0 \/ img.h = 0 THEN unchanged
        ELSE IF img.opaque = {} THEN unchanged
        ELSE
          LET min_x == SetMin({p[1] : p \in img.opaque})
              max_x == SetMax({p[1] : p \in img.opaque})
              min_y == SetMin({p[2] : p \in img.opaque})
              max_y == SetMax({p[2] : p \in img.opaque})
              trimmed_width == max_x - min_x + 1
              trimmed_height == max_y - min_y + 1
              cropped == Image(trimmed_width, trimmed_height,
                               {<<p[1] - min_x, p[2] - min_y>> : p \in img.opaque})
              original_size == sprite.size
          IN  IF trimmed_width = img.w /\ trimmed_height = img.h THEN unchanged
              ELSE [sprite |-> [sprite EXCEPT
                                  !.data = cropped,
                                  !.size = Size(trimmed_width, trimmed_height)],
                    original_rect |-> Some(Rect(0, 0, original_size.width,
                                                original_size.height))]

-----------------------------------------------------------------------------
(* algorithm::MaxRectsPacker: the set of maximal free rectangles of one    *)
(* page, best-short-side fit, the item flush against the free rectangle's  *)
(* top-left corner.                                                        *)

\* MaxRectsPacker::new(size)
MaxRectsNew(size) == {Rect(0, 0, size.width, size.height)}

RectFits(f, size) == size.width <= f.width /\ size.height <= f.height

RectsIntersect(a, b) ==
    /\ a.x < b.x + b.width
    /\ b.x < a.x + a.width
    /\ a.y < b.y + b.height
    /\ b.y < a.y + a.height

RectContains(outer, inner) ==
    /\ outer.x <= inner.x
    /\ outer.y <= inner.y
    /\ inner.x + inner.width <= outer.x + outer.width
    /\ inner.y + inner.height <= outer.y + outer.height

\* the fit score of a free rectangle: short side left over, long side left
\* over, then position, so that the choice is unique
FitScore(f, size) ==
    <<Min(f.width - size.width, f.height - size.height),
      Max(f.width - size.width, f.height - size.height),
      f.y, f.x, f.width>>

RECURSIVE TupleLess(_, _)
TupleLess(a, b) ==
    IF a = <<>> THEN FALSE
    ELSE IF Head(a) # Head(b) THEN Head(a) < Head(b)
    ELSE TupleLess(Tail(a), Tail(b))

\* what is left of the free rectangle f around the placed rectangle used
SplitFreeRect(f, used) ==
    IF ~RectsIntersect(f, used) THEN {f}
    ELSE
      (IF used.x > f.x
          THEN {Rect(f.x, f.y, used.x - f.x, f.height)} ELSE {})
      \cup
      (IF used.x + used.width < f.x + f.width
          THEN {Rect(used.x + used.width, f.y,
                     f.x + f.width - (used.x + used.width), f.height)} ELSE {})
      \cup
      (IF used.y > f.y
          THEN {Rect(f.x, f.y, f.width, used.y - f.y)} ELSE {})
      \cup
      (IF used.y + used.height < f.y + f.height
          THEN {Rect(f.x, used.y + used.height, f.width,
                     f.y + f.height - (used.y + used.height))} ELSE {})

PruneFreeRects(free) ==
    {r \in free : ~\E q \in free : q # r /\ RectContains(q, r)}

\* MaxRectsPacker::pack(size): the Option<Rect> and the packer as it is left
MaxRectsPack(free, size) ==
    LET fitting == {f \in free : RectFits(f, size)}
    IN  IF fitting = {} THEN [rect |-> None, free |-> free]
        ELSE
          LET best == CHOOSE f \in fitting :
                          \A g \in fitting :
                              g = f \/ TupleLess(FitScore(f, size), FitScore(g, size))
              used == Rect(best.x, best.y, size.width, size.height)
          IN  [rect |-> Some(used),
               free |-> PruneFreeRects(UNION {SplitFreeRect(f, used) : f \in free})]

-----------------------------------------------------------------------------
(* render_atlas and apply_extrude: the canvas is the set of its pixels     *)
(* with non-zero alpha                                                     *)

RectPixels(rect) ==
    {<<rect.x + p[1], rect.y + p[2]>> : p \in Pixels(rect.width, rect.height)}

\* the sprite copy loop of render_atlas
BlitSprite(canvas, packed_sprite) ==
    LET rect == packed_sprite.rect
        img == packed_sprite.item.sprite.data
        copied == {p \in Pixels(rect.width, rect.height) :
                       p[1] < img.w /\ p[2] < img.h}
    IN  (canvas \ {<<rect.x + p[1], rect.y + p[2]>> : p \in copied})
        \cup {<<rect.x + p[1], rect.y + p[2]>> : p \in copied \cap img.opaque}

\* ExtrudeWrites with the right and bottom bounds one pixel too far
ExtrudeWritesPastBorder(o, atlas_size, rect) ==
    UNION {
        {<<<<rect.x - e, rect.y + y>>, <<rect.x, rect.y + y>>>> :
            y \in {y0 \in 0 .. (rect.height - 1) : rect.x >= e}}
        \cup
        {<<<<rect.x + rect.width + e - 1, rect.y + y>>,
           <<rect.x + rect.width - 1, rect.y + y>>>> :
            y \in {y0 \in 0 .. (rect.height - 1) :
                       rect.x + rect.width + e - 1 <= atlas_size.width}}
        \cup
        {<<<<rect.x + x, rect.y - e>>, <<rect.x + x, rect.y>>>> :
            x \in {x0 \in 0 .. (rect.width - 1) : rect.y >= e}}
        \cup
        {<<<<rect.x + x, rect.y + rect.height + e - 1>>,
           <<rect.x + x, rect.y + rect.height - 1>>>> :
            x \in {x0 \in 0 .. (rect.width - 1) :
                       rect.y + rect.height + e - 1 <= atlas_size.height}}
        : e \in 1 .. extrude(o)}

\* apply_extrude: every write as <<target, source>>
ExtrudeWrites(o, atlas_size, rect) ==
    UNION {
        {<<<<rect.x - e, rect.y + y>>, <<rect.x, rect.y + y>>>> :
            y \in {y0 \in 0 .. (rect.height - 1) : rect.x >= e}}
        \cup
        {<<<<rect.x + rect.width + e - 1, rect.y + y>>,
           <<rect.x + rect.width - 1, rect.y + y>>>> :
            y \in {y0 \in 0 .. (rect.height - 1) :
                       rect.x + rect.width + e <= atlas_size.width}}
        \cup
        {<<<<rect.x + x, rect.y - e>>, <<rect.x + x, rect.y>>>> :
            x \in {x0 \in 0 .. (rect.width - 1) : rect.y >= e}}
        \cup
        {<<<<rect.x + x, rect.y + rect.height + e - 1>>,
           <<rect.x + x, rect.y + rect.height - 1>>>> :
            x \in {x0 \in 0 .. (rect.width - 1) :
                       rect.y + rect.height + e <= atlas_size.height}}
        : e \in 1 .. extrude(o)}

\* the sources lie inside the rect and the targets outside it, so no write
\* of one call reads what another write of the call has written
apply_extrude(o, canvas, atlas_size, packed_sprite) ==
    LET writes == ExtrudeWrites(o, atlas_size, packed_sprite.rect)
    IN  (canvas \ {w[1] : w \in writes})
        \cup {w[1] : w \in {v \in writes : v[2] \in canvas}}

RECURSIVE RenderSprites(_, _, _, _)
RenderSprites(o, canvas, atlas_size, packed_sprites) ==
    IF packed_sprites = <<>> THEN canvas
    ELSE LET blitted == BlitSprite(canvas, Head(packed_sprites))
             extruded == IF extrude(o) > 0
                         THEN apply_extrude(o, blitted, atlas_size, Head(packed_sprites))
                         ELSE blitted
         IN  RenderSprites(o, extruded, atlas_size, Tail(packed_sprites))

\* alpha_bleed leaves every alpha value as it is
render_atlas(o, packed_sprites, atlas_size) ==
    Image(atlas_size.width, atlas_size.height,
          RenderSprites(o, {}, atlas_size, packed_sprites))

-----------------------------------------------------------------------------
(* pack_single_atlas *)

PackedSprite(item, rect, trimmed, sprite_source_size) ==
    [item |-> item, rect |-> rect, trimmed |-> trimmed,
     sprite_source_size |-> sprite_source_size]

\* AtlasSize that rounds the height only
AtlasSizeHeightOnly(o) ==
    IF power_of_two(o)
    THEN Size(max_size(o)[1], next_power_of_two(max_size(o)[2]))
    ELSE Size(max_size(o)[1], max_size(o)[2])

AtlasSize(o) ==
    IF power_of_two(o)
    THEN Size(next_power_of_two(max_size(o)[1]), next_power_of_two(max_size(o)[2]))
    ELSE Size(max_size(o)[1], max_size(o)[2])

\* PackItems that forgets the item the packer could not place
RECURSIVE PackItemsDropUnplaced(_, _, _, _, _)
PackItemsDropUnplaced(o, free, items, packed_sprites, unpacked_items) ==
    IF items = <<>>
    THEN [packed_sprites |-> packed_sprites, unpacked_items |-> unpacked_items]
    ELSE
      LET trim == trim_sprite(o, Head(items).sprite)
          item == [Head(items) EXCEPT !.sprite = trim.sprite]
          required_size == Size(item.sprite.size.width + 2 * padding(o),
                                item.sprite.size.height + 2 * padding(o))
          placed == MaxRectsPack(free, required_size)
      IN  IF placed.rect # None
          THEN PackItemsDropUnplaced(
                   o, placed.free, Tail(items),
                   Append(packed_sprites,
                          PackedSprite(item,
                                       Rect(placed.rect[1].x + padding(o),
                                            placed.rect[1].y + padding(o),
                                            item.sprite.size.width,
                                            item.sprite.size.height),
                                       trim.original_rect # None, trim.original_rect)),
                   unpacked_items)
          ELSE PackItemsDropUnplaced(o, placed.free, Tail(items), packed_sprites,
                                     unpacked_items)

\* PackItems that leaves the loop at the first item the packer cannot place
\* and hands back that item and every item behind it
RECURSIVE PackItemsStopAtUnplaced(_, _, _, _, _)
PackItemsStopAtUnplaced(o, free, items, packed_sprites, unpacked_items) ==
    IF items = <<>>
    THEN [packed_sprites |-> packed_sprites, unpacked_items |-> unpacked_items]
    ELSE
      LET trim == trim_sprite(o, Head(items).sprite)
          item == [Head(items) EXCEPT !.sprite = trim.sprite]
          required_size == Size(item.sprite.size.width + 2 * padding(o),
                                item.sprite.size.height + 2 * padding(o))
          placed == MaxRectsPack(free, required_size)
      IN  IF placed.rect # None
          THEN PackItemsStopAtUnplaced(
                   o, placed.free, Tail(items),
                   Append(packed_sprites,
                          PackedSprite(item,
                                       Rect(placed.rect[1].x + padding(o),
                                            placed.rect[1].y + padding(o),
                                            item.sprite.size.width,
                                            item.sprite.size.height),
                                       trim.original_rect # None, trim.original_rect)),
                   unpacked_items)
          ELSE [packed_sprites |-> packed_sprites,
                unpacked_items |-> Append(unpacked_items, item) \o Tail(items)]

\* the `for mut item in items` loop
RECURSIVE PackItems(_, _, _, _, _)
PackItems(o, free, items, packed_sprites, unpacked_items) ==
    IF items = <<>>
    THEN [packed_sprites |-> packed_sprites, unpacked_items |-> unpacked_items]
    ELSE
      LET trim == trim_sprite(o, Head(items).sprite)
          original_rect == trim.original_rect
          item == [Head(items) EXCEPT !.sprite = trim.sprite]
          sprite == item.sprite
          required_size == Size(sprite.size.width + 2 * padding(o),
                                sprite.size.height + 2 * padding(o))
          placed == MaxRectsPack(free, required_size)
      IN  IF placed.rect # None
          THEN LET rect == placed.rect[1]
                   sprite_rect == Rect(rect.x + padding(o), rect.y + padding(o),
                                       sprite.size.width, sprite.size.height)
               IN  PackItems(o, placed.free, Tail(items),
                             Append(packed_sprites,
                                    PackedSprite(item, sprite_rect,
                                                 original_rect # None, original_rect)),
                             unpacked_items)
          ELSE PackItems(o, placed.free, Tail(items), packed_sprites,
                         Append(unpacked_items, item))

\* pack_single_atlas that hands the packer's padded rect on as the sprite's rect
PackSingleAtlasPaddedRect(o, items, page_index) ==
    LET atlas_size == AtlasSize(o)
        packed == PackItems(o, MaxRectsNew(atlas_size), items, <<>>, <<>>)
        grown == [i \in 1 .. Len(packed.packed_sprites) |->
                     [packed.packed_sprites[i] EXCEPT
                          !.rect.width = @ + 2 * padding(o),
                          !.rect.height = @ + 2 * padding(o)]]
    IN  [atlas |-> [page_index |-> page_index,
                    image_data |-> Image(atlas_size.width, atlas_size.height, {}),
                    size |-> atlas_size,
                    sprites |-> grown],
         unpacked_items |-> packed.unpacked_items]

pack_single_atlas(o, items, page_index) ==
    LET atlas_size == AtlasSize(o)
        packed == PackItems(o, MaxRectsNew(atlas_size), items, <<>>, <<>>)
    IN  [atlas |-> [page_index |-> page_index,
                    image_data |-> render_atlas(o, packed.packed_sprites, atlas_size),
                    size |-> atlas_size,
                    sprites |-> packed.packed_sprites],
         unpacked_items |-> packed.unpacked_items]

-----------------------------------------------------------------------------
(* create_manifest *)

InputName == "sprites"

\* AtlasManifest::new
ManifestNew(input_name) == [input_name |-> input_name, sprites |-> <<>>]

\* AtlasManifest::add_sprite
add_sprite(manifest, sprite_info) ==
    [manifest EXCEPT !.sprites = Append(@, sprite_info)]

GridColumnsFallback == 4

AnimationInfoOf(item) ==
    IF item.kind = "Animated"
    THEN Some([frame_count |-> item.frame_count,
               frame_size |-> item.frame_size,
               layout |-> IF item.layout.type = "Grid"
                          THEN [type |-> "Grid",
                                columns |-> IF item.layout.columns # None
                                            THEN item.layout.columns[1]
                                            ELSE GridColumnsFallback]
                          ELSE [type |-> item.layout.type],
               frame_duration_ms |-> item.frame_duration_ms,
               loops |-> item.loops])
    ELSE None

SpriteInfoOf(atlas, packed_sprite) ==
    [name |-> packed_sprite.item.sprite.name,
     rect |-> packed_sprite.rect,
     source_size |-> packed_sprite.item.sprite.size,
     trimmed |-> packed_sprite.trimmed,
     sprite_source_size |-> packed_sprite.sprite_source_size,
     page_index |-> atlas.page_index,
     animation |-> AnimationInfoOf(packed_sprite.item)]

RECURSIVE AddSprites(_, _, _)
AddSprites(manifest, atlas, packed_sprites) ==
    IF packed_sprites = <<>> THEN manifest
    ELSE AddSprites(add_sprite(manifest, SpriteInfoOf(atlas, Head(packed_sprites))),
                    atlas, Tail(packed_sprites))

RECURSIVE AddAtlases(_, _)
AddAtlases(manifest, atlas_list) ==
    IF atlas_list = <<>> THEN manifest
    ELSE AddAtlases(AddSprites(manifest, Head(atlas_list), Head(atlas_list).sprites),
                    Tail(atlas_list))

create_manifest(atlas_list, input_name) ==
    AddAtlases(ManifestNew(input_name), atlas_list)

-----------------------------------------------------------------------------
(* assets_to_sprites, static mode *)

IsImage(asset) == asset.ty = "Image"

LoadError(asset) == [type |-> "FailedToLoadImage", path |-> asset.path]

\* StaticItems that never records a hash as seen
RECURSIVE StaticItemsNoInsert(_, _, _, _)
StaticItemsNoInsert(o, rest, items, seen_hashes) ==
    IF rest = <<>> THEN [error |-> None, items |-> items]
    ELSE
      LET asset == Head(rest)
      IN  IF ~IsImage(asset) THEN StaticItemsNoInsert(o, Tail(rest), items, seen_hashes)
          ELSE IF ~asset.data.valid
               THEN [error |-> Some(LoadError(asset)), items |-> <<>>]
          ELSE IF dedupe(o) /\ asset.hash \in seen_hashes
               THEN StaticItemsNoInsert(o, Tail(rest), items, seen_hashes)
          ELSE StaticItemsNoInsert(
                   o, Tail(rest),
                   Append(items,
                          Static(Sprite(file_stem(asset), asset.data,
                                        Size(asset.data.w, asset.data.h),
                                        asset.hash))),
                   seen_hashes)

\* the `for asset in assets` loop; seen_hashes as the set of its keys
RECURSIVE StaticItems(_, _, _, _)
StaticItems(o, rest, items, seen_hashes) ==
    IF rest = <<>> THEN [error |-> None, items |-> items]
    ELSE
      LET asset == Head(rest)
      IN  IF ~IsImage(asset) THEN StaticItems(o, Tail(rest), items, seen_hashes)
          ELSE IF ~asset.data.valid
               THEN [error |-> Some(LoadError(asset)), items |-> <<>>]
          ELSE IF dedupe(o) /\ asset.hash \in seen_hashes
               THEN StaticItems(o, Tail(rest), items, seen_hashes)
          ELSE StaticItems(o, Tail(rest),
                           Append(items,
                                  Static(Sprite(file_stem(asset), asset.data,
                                                Size(asset.data.w, asset.data.h),
                                                asset.hash))),
                           IF dedupe(o) THEN seen_hashes \cup {asset.hash}
                           ELSE seen_hashes)

-----------------------------------------------------------------------------
(* The frame pattern: Regex::new and Regex::captures for the default       *)
(* pattern (?P<name>.+)_(\d+)                                              *)

DefaultFramePattern == "(?P<name>.+)_(\\d+)"

InvalidFramePattern == "(?P<name>.+_(\\d+)"

\* Regex::new(pattern).is_ok()
RegexCompiles(pattern) == pattern = DefaultFramePattern

Underscore == 95

IsDigit(c) == 48 <= c /\ c <= 57

\* u32::MAX is 4294967295 = U32MaxDiv10 * 10 + U32MaxMod10
U32MaxDiv10 == 429496729

U32MaxMod10 == 5

\* str::parse::<u32>().unwrap_or(0): 0 when the value does not fit a u32
RECURSIVE ParseDigits(_, _)
ParseDigits(digits, acc) ==
    IF digits = <<>> THEN acc
    ELSE IF \/ acc > U32MaxDiv10
            \/ acc = U32MaxDiv10 /\ Head(digits) - 48 > U32MaxMod10
         THEN 0
    ELSE ParseDigits(Tail(digits), acc * 10 + (Head(digits) - 48))

\* the longest run of digits of s that starts at position i
RECURSIVE DigitRun(_, _)
DigitRun(s, i) ==
    IF i > Len(s) \/ ~IsDigit(s[i]) THEN <<>>
    ELSE <<s[i]>> \o DigitRun(s, i + 1)

\* frame_regex.captures(filename): the greedy .+ runs up to the last "_"
\* that a digit follows; None when the stem does not match
FrameCaptures(filename) ==
    LET cuts == {i \in 2 .. (Len(filename) - 1) :
                     filename[i] = Underscore /\ IsDigit(filename[i + 1])}
    IN  IF cuts = {} THEN None
        ELSE LET i == SetMax(cuts)
             IN  Some([name |-> SubSeq(filename, 1, i - 1),
                       number |-> DigitRun(filename, i + 1)])

-----------------------------------------------------------------------------
(* combine_frames_into_strip *)

\* (frame_count as f32).sqrt().ceil() as u32
CeilSqrt(n) == CHOOSE k \in 0 .. n : k * k >= n /\ \A j \in 0 .. (k - 1) : j * j < n

\* u32::div_ceil
DivCeil(a, b) == (a + b - 1) \div b

StripColumns(layout, frame_count) ==
    CASE layout.type = "HorizontalStrip" -> frame_count
      [] layout.type = "VerticalStrip" -> 1
      [] layout.type = "Grid" ->
            IF layout.columns # None THEN layout.columns[1] ELSE CeilSqrt(frame_count)

\* StripSize with frame_count / cols in place of frame_count.div_ceil(cols)
StripSizeRowsFloor(layout, frame_width, frame_height, frame_count) ==
    CASE layout.type = "HorizontalStrip" -> Size(frame_width * frame_count, frame_height)
      [] layout.type = "VerticalStrip" -> Size(frame_width, frame_height * frame_count)
      [] layout.type = "Grid" ->
            LET cols == StripColumns(layout, frame_count)
                rows == frame_count \div cols
            IN  Size(frame_width * cols, frame_height * rows)

\* the match on layout that yields strip_width and strip_height
StripSize(layout, frame_width, frame_height, frame_count) ==
    CASE layout.type = "HorizontalStrip" -> Size(frame_width * frame_count, frame_height)
      [] layout.type = "VerticalStrip" -> Size(frame_width, frame_height * frame_count)
      [] layout.type = "Grid" ->
            LET cols == StripColumns(layout, frame_count)
                rows == DivCeil(frame_count, cols)
            IN  Size(frame_width * cols, frame_height * rows)

\* the offset of frame number frame_idx (from 0) inside the strip
FrameOffset(layout, columns, frame_width, frame_height, frame_idx) ==
    CASE layout.type = "HorizontalStrip" -> <<frame_idx * frame_width, 0>>
      [] layout.type = "VerticalStrip" -> <<0, frame_idx * frame_height>>
      [] layout.type = "Grid" ->
            <<(frame_idx % columns) * frame_width,
              (frame_idx \div columns) * frame_height>>

\* the frame copy loop: frame i overwrites what lies under it, clipped to
\* the strip
RECURSIVE CopyFrames(_, _, _, _, _, _)
CopyFrames(canvas, strip_size, layout, columns, frames, i) ==
    IF i > Len(frames) THEN canvas
    ELSE
      LET offset == FrameOffset(layout, columns, frames[1].size.width,
                                frames[1].size.height, i - 1)
          img == frames[i].data
          inside == {p \in Pixels(img.w, img.h) :
                         /\ offset[1] + p[1] < strip_size.width
                         /\ offset[2] + p[2] < strip_size.height}
      IN  CopyFrames(
              (canvas \ {<<offset[1] + p[1], offset[2] + p[2]>> : p \in inside})
              \cup {<<offset[1] + p[1], offset[2] + p[2]>> : p \in inside \cap img.opaque},
              strip_size, layout, columns, frames, i + 1)

\* Ok(AnimationStrip) as [error |-> None, item |-> <<the Animated item>>]
combine_frames_into_strip(anim_name, frames, layout, frame_duration_ms, loops) ==
    IF frames = <<>>
    THEN [error |-> Some([type |-> "EmptyAnimation", name |-> anim_name]),
          item |-> None]
    ELSE
      LET frame_width == frames[1].size.width
          frame_height == frames[1].size.height
          frame_count == Len(frames)
          columns == StripColumns(layout, frame_count)
          strip_size == StripSize(layout, frame_width, frame_height, frame_count)
      IN  IF layout.type = "Grid" /\ columns = 0
          THEN \* frame_count.div_ceil(0): the thread panics
               [error |-> Some([type |-> "Panic", name |-> anim_name]),
                item |-> None]
          ELSE IF \E i \in 1 .. Len(frames) : ~frames[i].data.valid
          THEN [error |-> Some([type |-> "FailedToLoadFrame", name |-> anim_name]),
                item |-> None]
          ELSE [error |-> None,
                item |-> Some(Animated(
                    Sprite(anim_name,
                           Image(strip_size.width, strip_size.height,
                                 CopyFrames({}, strip_size, layout, columns, frames, 1)),
                           strip_size, frames[1].hash),
                    frame_count, Size(frame_width, frame_height), layout,
                    frame_duration_ms, loops))]

-----------------------------------------------------------------------------
(* detect_animations *)

\* ScanAssets that keeps the frame a frame number already has
RECURSIVE ScanAssetsKeepFirst(_, _, _)
ScanAssetsKeepFirst(rest, animation_groups, static_sprites) ==
    IF rest = <<>>
    THEN [error |-> None, animation_groups |-> animation_groups,
          static_sprites |-> static_sprites]
    ELSE
      LET asset == Head(rest)
          filename == file_stem(asset)
          captures == FrameCaptures(filename)
          sprite == Sprite(filename, asset.data,
                           Size(asset.data.w, asset.data.h), asset.hash)
      IN  IF ~IsImage(asset)
          THEN ScanAssetsKeepFirst(Tail(rest), animation_groups, static_sprites)
          ELSE IF ~asset.data.valid
               THEN [error |-> Some(LoadError(asset)), animation_groups |-> <<>>,
                     static_sprites |-> <<>>]
          ELSE IF captures # None
               THEN LET anim_name == captures[1].name
                        frame_num == ParseDigits(captures[1].number, 0)
                        frames == IF anim_name \in DOMAIN animation_groups
                                  THEN animation_groups[anim_name]
                                  ELSE <<>>
                    IN  ScanAssetsKeepFirst(
                            Tail(rest),
                            (anim_name :> (frames @@ (frame_num :> sprite)))
                                @@ animation_groups,
                            static_sprites)
          ELSE ScanAssetsKeepFirst(Tail(rest), animation_groups,
                                   Append(static_sprites, sprite))

\* the `for asset in assets` loop.  animation_groups maps each animation
\* name to its BTreeMap, a function from frame numbers to sprites
RECURSIVE ScanAssets(_, _, _)
ScanAssets(rest, animation_groups, static_sprites) ==
    IF rest = <<>>
    THEN [error |-> None, animation_groups |-> animation_groups,
          static_sprites |-> static_sprites]
    ELSE
      LET asset == Head(rest)
          filename == file_stem(asset)
          captures == FrameCaptures(filename)
          sprite == Sprite(filename, asset.data,
                           Size(asset.data.w, asset.data.h), asset.hash)
      IN  IF ~IsImage(asset) THEN ScanAssets(Tail(rest), animation_groups, static_sprites)
          ELSE IF ~asset.data.valid
               THEN [error |-> Some(LoadError(asset)), animation_groups |-> <<>>,
                     static_sprites |-> <<>>]
          ELSE IF captures # None
               THEN LET anim_name == captures[1].name
                        frame_num == ParseDigits(captures[1].number, 0)
                        frames == IF anim_name \in DOMAIN animation_groups
                                  THEN animation_groups[anim_name]
                                  ELSE <<>>
                    IN  ScanAssets(Tail(rest),
                                   (anim_name :> ((frame_num :> sprite) @@ frames))
                                       @@ animation_groups,
                                   static_sprites)
          ELSE ScanAssets(Tail(rest), animation_groups, Append(static_sprites, sprite))

\* BTreeMap::into_values: the values by ascending key
RECURSIVE OrderedValues(_)
OrderedValues(frames) ==
    IF DOMAIN frames = {} THEN <<>>
    ELSE LET k == SetMin(DOMAIN frames)
         IN  <<frames[k]>> \o
             OrderedValues([j \in (DOMAIN frames) \ {k} |-> frames[j]])

RECURSIVE StaticAll(_)
StaticAll(sprite_list) ==
    IF sprite_list = <<>> THEN <<>>
    ELSE <<Static(Head(sprite_list))>> \o StaticAll(Tail(sprite_list))

\* ProcessGroups with frame_count <= min_frames in place of <
RECURSIVE ProcessGroupsOffByOne(_, _, _, _)
ProcessGroupsOffByOne(anim_opts, animation_groups, order, final_items) ==
    IF order = <<>> THEN [error |-> None, items |-> final_items]
    ELSE
      LET anim_name == Head(order)
          frames == animation_groups[anim_name]
          frame_count == Cardinality(DOMAIN frames)
      IN  IF frame_count <= anim_opts.min_frames
          THEN ProcessGroupsOffByOne(anim_opts, animation_groups, Tail(order),
                                     final_items \o StaticAll(OrderedValues(frames)))
          ELSE
            LET strip == combine_frames_into_strip(
                             anim_name, OrderedValues(frames), anim_opts.layout,
                             anim_opts.default_frame_duration_ms, anim_opts.default_loop)
            IN  IF strip.error # None
                THEN [error |-> strip.error, items |-> <<>>]
                ELSE ProcessGroupsOffByOne(anim_opts, animation_groups, Tail(order),
                                           Append(final_items, strip.item[1]))

\* the `for (anim_name, frames) in animation_groups` loop, the groups taken
\* in the order `order`
RECURSIVE ProcessGroups(_, _, _, _)
ProcessGroups(anim_opts, animation_groups, order, final_items) ==
    IF order = <<>> THEN [error |-> None, items |-> final_items]
    ELSE
      LET anim_name == Head(order)
          frames == animation_groups[anim_name]
          frame_count == Cardinality(DOMAIN frames)
      IN  IF frame_count < anim_opts.min_frames
          THEN ProcessGroups(anim_opts, animation_groups, Tail(order),
                             final_items \o StaticAll(OrderedValues(frames)))
          ELSE
            LET strip == combine_frames_into_strip(
                             anim_name, OrderedValues(frames), anim_opts.layout,
                             anim_opts.default_frame_duration_ms, anim_opts.default_loop)
            IN  IF strip.error # None
                THEN [error |-> strip.error, items |-> <<>>]
                ELSE ProcessGroups(anim_opts, animation_groups, Tail(order),
                                   Append(final_items, strip.item[1]))

\* the orders in which a HashMap with this key set may be iterated
IterationOrders(keys) ==
    {order \in [1 .. Cardinality(keys) -> keys] :
         \A i, j \in 1 .. Cardinality(keys) : order[i] = order[j] => i = j}

\* detect_animations that starts final_items empty instead of from the
\* static sprites
DetectAnimationsGroupsOnly(asset_list, anim_opts, hash_order) ==
    IF ~RegexCompiles(anim_opts.frame_pattern)
    THEN [error |-> Some([type |-> "InvalidFramePattern",
                          pattern |-> anim_opts.frame_pattern]),
          items |-> <<>>]
    ELSE
      LET scan == ScanAssets(asset_list, <<>>, <<>>)
      IN  IF scan.error # None THEN [error |-> scan.error, items |-> <<>>]
          ELSE ProcessGroups(anim_opts, scan.animation_groups, hash_order, <<>>)

\* detect_animations that compiles the pattern only after the asset loop
DetectAnimationsDecodeFirst(asset_list, anim_opts, hash_order) ==
    LET scan == ScanAssets(asset_list, <<>>, <<>>)
    IN  IF scan.error # None THEN [error |-> scan.error, items |-> <<>>]
        ELSE IF ~RegexCompiles(anim_opts.frame_pattern)
        THEN [error |-> Some([type |-> "InvalidFramePattern",
                              pattern |-> anim_opts.frame_pattern]),
              items |-> <<>>]
        ELSE ProcessGroups(anim_opts, scan.animation_groups, hash_order,
                           StaticAll(scan.static_sprites))

\* detect_animations, the HashMap iterated in the order hash_order
detect_animations(asset_list, anim_opts, hash_order) ==
    IF ~RegexCompiles(anim_opts.frame_pattern)
    THEN [error |-> Some([type |-> "InvalidFramePattern",
                          pattern |-> anim_opts.frame_pattern]),
          items |-> <<>>]
    ELSE
      LET scan == ScanAssets(asset_list, <<>>, <<>>)
      IN  IF scan.error # None THEN [error |-> scan.error, items |-> <<>>]
          ELSE ProcessGroups(anim_opts, scan.animation_groups, hash_order,
                             StaticAll(scan.static_sprites))

\* the key set of animation_groups after the asset loop
AnimationNames(asset_list, anim_opts) ==
    IF ~RegexCompiles(anim_opts.frame_pattern) THEN {}
    ELSE LET scan == ScanAssets(asset_list, <<>>, <<>>)
         IN  IF scan.error # None THEN {} ELSE DOMAIN scan.animation_groups

-----------------------------------------------------------------------------
(* The inputs: the files an asset list is drawn from and the options       *)

Path(dir, stem) == [dir |-> dir, stem |-> stem]

Asset(path, ty, data, hash) == [path |-> path, ty |-> ty, data |-> data, hash |-> hash]

Full(w, h) == Image(w, h, Pixels(w, h))

\* "a" .. "f": files packed in static mode.  Equal content has equal hash.
StaticFiles ==
    { Asset(Path(1, <<97>>), "Image", Full(2, 2), 1),
      Asset(Path(1, <<98>>), "Image", Full(2, 2), 1),
      Asset(Path(2, <<97>>), "Image", Image(2, 2, {<<1, 1>>}), 2),
      Asset(Path(1, <<99>>), "Image", Full(1, 3), 3),
      Asset(Path(1, <<100>>), "Image", Full(3, 1), 4),
      Asset(Path(1, <<101>>), "Image", CorruptData, 5),
      Asset(Path(1, <<102>>), "Other", CorruptData, 6) }

\* "a_1_1", "a_1_2", "a_1", "a_01", "b", "a_2": files packed in animated mode
AnimatedFiles ==
    { Asset(Path(1, <<97, 95, 49, 95, 49>>), "Image", Full(1, 1), 11),
      Asset(Path(1, <<97, 95, 49, 95, 50>>), "Image", Full(1, 1), 11),
      Asset(Path(1, <<97, 95, 49>>), "Image", Full(2, 1), 12),
      Asset(Path(1, <<97, 95, 48, 49>>), "Image", Full(1, 2), 13),
      Asset(Path(1, <<98>>), "Image", Full(2, 2), 1),
      Asset(Path(1, <<97, 95, 50>>), "Image", CorruptData, 5) }

\* the lists of at most n distinct files
FileLists(files, n) ==
    UNION {{list \in [1 .. k -> files] :
                \A i, j \in 1 .. k : list[i] = list[j] => i = j} : k \in 0 .. n}

MaxSizes == {<<2, 2>>, <<3, 2>>, <<6, 4>>}

StaticModes ==
    [type : {"Static"}, max_size : MaxSizes, power_of_two : BOOLEAN,
     padding : {0, 1}, extrude : {0, 1}, allow_trim : BOOLEAN,
     page_limit : {None, Some(0), Some(1)},
     sort : {"Area", "MaxSide", "Name"}, dedupe : BOOLEAN]

Layouts ==
    {[type |-> "HorizontalStrip"], [type |-> "VerticalStrip"],
     [type |-> "Grid", columns |-> None], [type |-> "Grid", columns |-> Some(2)]}

AnimatedModes ==
    [type : {"Animated"}, frame_pattern : {DefaultFramePattern, InvalidFramePattern},
     min_frames : {2, 3}, layout : Layouts, default_frame_duration_ms : {100},
     default_loop : {TRUE}, padding : {0, 1}, extrude : {0, 1}]

Pending == [kind |-> "Pending", value |-> None, error |-> None]

Ok(value) == [kind |-> "Ok", value |-> Some(value), error |-> None]

Err(error) == [kind |-> "Err", value |-> None, error |-> Some(error)]

\* the call did not return: the thread panicked
Panicked == [kind |-> "Panic", value |-> None, error |-> None]

PackResult(atlas_list, manifest) == [atlases |-> atlas_list, manifest |-> manifest]

\* a Config without inputs
NoConfig == [inputs |-> <<>>]

\* migrate_config is not running
MigrateIdle ==
    /\ migrate_args = None
    /\ file_system = <<>>
    /\ old_file_system = <<>>
    /\ migrate_pc = "idle"
    /\ output_content = None
    /\ fs_ops = <<>>
    /\ migrate_result = Pending

\* upload_cloud is not running
UploadIdle ==
    /\ upload_kind = "None"
    /\ backoff = 0
    /\ waits = <<>>
    /\ poll = None
    /\ upload_result = Pending

\* render_atlas is not running
RenderIdle ==
    /\ render_sprites = <<>>
    /\ atlas_image = <<>>
    /\ render_pc = "idle"
    /\ sprite_index = 0
    /\ render_ops = <<>>

Init ==
    /\ \/ /\ assets \in FileLists(StaticFiles, MaxAssets)
          /\ options \in [enabled : BOOLEAN, mode : StaticModes]
       \/ /\ assets \in FileLists(AnimatedFiles, MaxAnimAssets)
          /\ options \in [enabled : BOOLEAN, mode : AnimatedModes]
    /\ pc = "start"
    /\ sprites = <<>>
    /\ remaining_items = <<>>
    /\ atlases = <<>>
    /\ result = Pending
    /\ config = NoConfig
    /\ validation = Pending
    /\ old_pack = None
    /\ new_pack = None
    /\ RenderIdle
    /\ UploadIdle
    /\ MigrateIdle

-----------------------------------------------------------------------------
(* pack_assets, step by step *)

Return(r) ==
    /\ result' = r
    /\ pc' = "done"

\* CheckEnabled that hands back an empty result when packing is not enabled
CheckEnabledReturnsEmpty ==
    /\ pc = "start"
    /\ IF ~options.enabled
       THEN Return(Ok(PackResult(<<>>, ManifestNew(InputName))))
       ELSE pc' = "convert" /\ UNCHANGED result
    /\ UNCHANGED <<assets, options, sprites, remaining_items, atlases, outside_pack>>

\* if !self.options.enabled { bail!(..) }
CheckEnabled ==
    /\ pc = "start"
    /\ IF ~options.enabled
       THEN Return(Err([type |-> "NotEnabled", input_name |-> InputName]))
       ELSE pc' = "convert" /\ UNCHANGED result
    /\ UNCHANGED <<assets, options, sprites, remaining_items, atlases, outside_pack>>

\* Converted without the early return on an empty item list
ConvertedNoEarlyReturn(outcome) ==
    /\ IF outcome.error # None /\ outcome.error[1].type = "Panic"
       THEN Return(Panicked) /\ UNCHANGED sprites
       ELSE IF outcome.error # None
       THEN Return(Err(outcome.error[1])) /\ UNCHANGED sprites
       ELSE sprites' = outcome.items /\ pc' = "sort" /\ UNCHANGED result
    /\ UNCHANGED <<assets, options, remaining_items, atlases, outside_pack>>

\* what pack_assets does with the outcome of assets_to_sprites
Converted(outcome) ==
    /\ IF outcome.error # None /\ outcome.error[1].type = "Panic"
       THEN Return(Panicked) /\ UNCHANGED sprites
       ELSE IF outcome.error # None
       THEN Return(Err(outcome.error[1])) /\ UNCHANGED sprites
       ELSE IF outcome.items = <<>>
       THEN Return(Ok(PackResult(<<>>, ManifestNew(InputName)))) /\ UNCHANGED sprites
       ELSE sprites' = outcome.items /\ pc' = "sort" /\ UNCHANGED result
    /\ UNCHANGED <<assets, options, remaining_items, atlases, outside_pack>>

\* assets_to_sprites in static mode
AssetsToSprites ==
    /\ pc = "convert"
    /\ options.mode.type = "Static"
    /\ Converted(StaticItems(options, assets, <<>>, {}))

\* assets_to_sprites in animated mode
DetectAnimations ==
    /\ pc = "convert"
    /\ options.mode.type = "Animated"
    /\ \E hash_order \in IterationOrders(AnimationNames(assets, options.mode)) :
           Converted(detect_animations(assets, options.mode, hash_order))

SortSprites ==
    /\ pc = "sort"
    /\ sprites' = sort_sprites(options, sprites)
    /\ pc' = "validate"
    /\ UNCHANGED <<assets, options, remaining_items, atlases, result, outside_pack>>

ValidateSpriteSizes ==
    /\ pc = "validate"
    /\ LET checked == validate_sprite_sizes(options, sprites)
       IN  IF checked # None
           THEN Return(Err(checked[1])) /\ UNCHANGED remaining_items
           ELSE remaining_items' = sprites /\ pc' = "pack" /\ UNCHANGED result
    /\ UNCHANGED <<assets, options, sprites, atlases, outside_pack>>

\* PackSingleAtlas that counts the pages from 1
PackSingleAtlasOneBased ==
    /\ pc = "pack"
    /\ remaining_items # <<>>
    /\ Len(atlases) < MaxPages
    /\ LET packed == pack_single_atlas(options, remaining_items, Len(atlases) + 1)
       IN  /\ atlases' = Append(atlases, packed.atlas)
           /\ remaining_items' = packed.unpacked_items
    /\ UNCHANGED <<assets, options, pc, sprites, result, outside_pack>>

\* one turn of the while loop of pack_sprites_to_atlases
PackSingleAtlas ==
    /\ pc = "pack"
    /\ remaining_items # <<>>
    /\ Len(atlases) < MaxPages
    /\ LET packed == pack_single_atlas(options, remaining_items, Len(atlases))
       IN  /\ atlases' = Append(atlases, packed.atlas)
           /\ remaining_items' = packed.unpacked_items
    /\ UNCHANGED <<assets, options, pc, sprites, result, outside_pack>>

\* render_atlas(..)? fails: the page image cannot be encoded
RenderFails ==
    /\ pc = "pack"
    /\ remaining_items # <<>>
    /\ Len(atlases) < MaxPages
    /\ Return(Err([type |-> "RenderFailed", page_index |-> Len(atlases)]))
    /\ UNCHANGED <<assets, options, sprites, remaining_items, atlases, outside_pack>>

\* CheckPageLimit with >= in place of >
CheckPageLimitOffByOne ==
    /\ pc = "pack"
    /\ remaining_items = <<>>
    /\ IF page_limit(options) # None /\ Len(atlases) >= page_limit(options)[1]
       THEN Return(Err([type |-> "PageLimit", pages |-> Len(atlases),
                        limit |-> page_limit(options)[1]]))
       ELSE pc' = "manifest" /\ UNCHANGED result
    /\ UNCHANGED <<assets, options, sprites, remaining_items, atlases, outside_pack>>

\* CheckPageLimit that hands back the pages within the limit instead of failing
CheckPageLimitTruncates ==
    /\ pc = "pack"
    /\ remaining_items = <<>>
    /\ IF page_limit(options) # None /\ Len(atlases) > page_limit(options)[1]
       THEN LET kept == SubSeq(atlases, 1, page_limit(options)[1])
            IN  Return(Ok(PackResult(kept, create_manifest(kept, InputName))))
       ELSE pc' = "manifest" /\ UNCHANGED result
    /\ UNCHANGED <<assets, options, sprites, remaining_items, atlases, outside_pack>>

\* the page limit check, once the loop is left
CheckPageLimit ==
    /\ pc = "pack"
    /\ remaining_items = <<>>
    /\ IF page_limit(options) # None /\ Len(atlases) > page_limit(options)[1]
       THEN Return(Err([type |-> "PageLimit", pages |-> Len(atlases),
                        limit |-> page_limit(options)[1]]))
       ELSE pc' = "manifest" /\ UNCHANGED result
    /\ UNCHANGED <<assets, options, sprites, remaining_items, atlases, outside_pack>>

CreateManifest ==
    /\ pc = "manifest"
    /\ Return(Ok(PackResult(atlases, create_manifest(atlases, InputName))))
    /\ UNCHANGED <<assets, options, sprites, remaining_items, atlases, outside_pack>>

Next ==
    \/ CheckEnabled
    \/ AssetsToSprites
    \/ DetectAnimations
    \/ SortSprites
    \/ ValidateSpriteSizes
    \/ PackSingleAtlas
    \/ RenderFails
    \/ CheckPageLimit
    \/ CreateManifest

Spec == Init /\ [][Next]_vars

-----------------------------------------------------------------------------
(* pack_assets in animated mode, on the frames of the animations "w" and   *)
(* "x" and the plain file "b"                                              *)

MaxFrames == 3

\* "w_1", "w_2", "w_3", "w_01", "w_4294967296", "w_9999999999", "x_1", "b".
\* The frame numbers of the fifth and sixth do not fit a u32.
FrameFiles ==
    { Asset(Path(1, <<119, 95, 49>>), "Image", Image(2, 1, {<<0, 0>>}), 21),
      Asset(Path(1, <<119, 95, 50>>), "Image", Image(2, 1, {<<1, 0>>}), 22),
      Asset(Path(1, <<119, 95, 51>>), "Image", Full(2, 1), 23),
      Asset(Path(1, <<119, 95, 48, 49>>), "Image", Image(2, 1, {}), 24),
      Asset(Path(1, <<119, 95, 52, 50, 57, 52, 57, 54, 55, 50, 57, 54>>), "Image",
            Full(1, 1), 25),
      Asset(Path(1, <<119, 95, 57, 57, 57, 57, 57, 57, 57, 57, 57, 57>>), "Image",
            Full(1, 2), 26),
      Asset(Path(1, <<120, 95, 49>>), "Image", Full(1, 1), 25),
      Asset(Path(1, <<98>>), "Image", Full(2, 2), 1) }

FrameLayouts ==
    Layouts \cup {[type |-> "Grid", columns |-> Some(0)]}

FrameModes ==
    [type : {"Animated"}, frame_pattern : {DefaultFramePattern},
     min_frames : {2, 3}, layout : FrameLayouts, default_frame_duration_ms : {100},
     default_loop : {TRUE}, padding : {1}, extrude : {1}]

InitAnimated ==
    /\ assets \in FileLists(FrameFiles, MaxFrames)
    /\ options \in [enabled : {TRUE}, mode : FrameModes]
    /\ pc = "start"
    /\ sprites = <<>>
    /\ remaining_items = <<>>
    /\ atlases = <<>>
    /\ result = Pending
    /\ config = NoConfig
    /\ validation = Pending
    /\ old_pack = None
    /\ new_pack = None
    /\ RenderIdle
    /\ UploadIdle
    /\ MigrateIdle

NextAnimated ==
    \/ CheckEnabled
    \/ DetectAnimations
    \/ SortSprites
    \/ ValidateSpriteSizes
    \/ PackSingleAtlas
    \/ RenderFails
    \/ CheckPageLimit
    \/ CreateManifest

SpecAnimated == InitAnimated /\ [][NextAnimated]_vars

-----------------------------------------------------------------------------
(* Config::validate, src/src/config.rs, next to the packing of the input   *)
(* "sprites" of the same Config                                            *)

MaxConfigAssets == 2

\* a pattern with an unclosed character class
UnclosedClassPattern == "["

\* Input, of which validate reads the pack options only
Input(pack) == [pack |-> pack]

\* the anyhow::bail! of validate: the input and the pattern it names
ConfigError(input_name, frame_pattern) ==
    [type |-> "InvalidFrameRegex", input_name |-> input_name,
     frame_pattern |-> frame_pattern]

\* the `for (input_name, input) in &self.inputs` loop, the inputs taken in
\* the order `order`
RECURSIVE ValidateInputs(_, _)
ValidateInputs(inputs, order) ==
    IF order = <<>> THEN Ok(<<>>)
    ELSE
      LET input_name == Head(order)
          input == inputs[input_name]
      IN  IF /\ input.pack # None
             /\ input.pack[1].mode.type = "Animated"
             /\ ~RegexCompiles(input.pack[1].mode.frame_pattern)
          THEN Err(ConfigError(input_name, input.pack[1].mode.frame_pattern))
          ELSE ValidateInputs(inputs, Tail(order))

\* Config::validate, the HashMap of inputs iterated in the order hash_order
validate(cfg, hash_order) == ValidateInputs(cfg.inputs, hash_order)

ConfigStaticMode ==
    [type |-> "Static", max_size |-> <<6, 4>>, power_of_two |-> FALSE,
     padding |-> 0, extrude |-> 0, allow_trim |-> FALSE, page_limit |-> None,
     sort |-> "Area", dedupe |-> FALSE]

ConfigAnimatedMode(frame_pattern) ==
    [type |-> "Animated", frame_pattern |-> frame_pattern, min_frames |-> 2,
     layout |-> [type |-> "HorizontalStrip"], default_frame_duration_ms |-> 100,
     default_loop |-> TRUE, padding |-> 0, extrude |-> 0]

\* the pack options an input of the Config may have
PackChoices ==
    { [enabled |-> TRUE, mode |-> ConfigStaticMode],
      [enabled |-> TRUE, mode |-> ConfigAnimatedMode(DefaultFramePattern)],
      [enabled |-> TRUE, mode |-> ConfigAnimatedMode(InvalidFramePattern)],
      [enabled |-> FALSE, mode |-> ConfigAnimatedMode(InvalidFramePattern)],
      [enabled |-> TRUE, mode |-> ConfigAnimatedMode(UnclosedClassPattern)] }

\* the input "sprites", which is packed, alone or with a second input "ui"
Configs ==
    {[inputs |-> ("sprites" :> Input(Some(p)))] : p \in PackChoices}
    \cup
    {[inputs |-> ("sprites" :> Input(Some(p))) @@ ("ui" :> Input(q))] :
         p \in PackChoices, q \in {None} \cup {Some(c) : c \in PackChoices}}

InitConfig ==
    /\ config \in Configs
    /\ validation = Pending
    /\ assets \in FileLists(AnimatedFiles, MaxConfigAssets)
    /\ options = config.inputs["sprites"].pack[1]
    /\ pc = "start"
    /\ sprites = <<>>
    /\ remaining_items = <<>>
    /\ atlases = <<>>
    /\ result = Pending
    /\ old_pack = None
    /\ new_pack = None
    /\ RenderIdle
    /\ UploadIdle
    /\ MigrateIdle

\* config.validate()
ConfigValidate ==
    /\ validation = Pending
    /\ \E hash_order \in IterationOrders(DOMAIN config.inputs) :
           validation' = validate(config, hash_order)
    /\ UNCHANGED <<assets, options, pc, sprites, remaining_items, atlases, result,
                   config, old_pack, new_pack, render_vars, upload_vars,
                   migrate_vars>>

NextConfig ==
    \/ ConfigValidate
    \/ CheckEnabled
    \/ AssetsToSprites
    \/ DetectAnimations
    \/ SortSprites
    \/ ValidateSpriteSizes
    \/ PackSingleAtlas
    \/ RenderFails
    \/ CheckPageLimit
    \/ CreateManifest

SpecConfig == InitConfig /\ [][NextConfig]_vars

-----------------------------------------------------------------------------
(* OldPackOptions::to_new_format, src/src/migrate_config.rs *)

\* impl Default for OldPackOptions
OldPackOptionsDefault ==
    [enabled |-> FALSE, max_size |-> <<2048, 2048>>, power_of_two |-> TRUE,
     padding |-> 2, extrude |-> 1, allow_trim |-> FALSE, algorithm |-> "MaxRects",
     page_limit |-> None, sort |-> "Area", dedupe |-> FALSE]

\* impl Default for StaticOptions, src/src/config.rs
StaticOptionsDefault ==
    [max_size |-> <<2048, 2048>>, power_of_two |-> TRUE, padding |-> 2,
     extrude |-> 1, allow_trim |-> FALSE, algorithm |-> "MaxRects",
     page_limit |-> None, sort |-> "Area", dedupe |-> FALSE]

\* PackMode::Static(opts)
PackModeStatic(opts) == [type |-> "Static"] @@ opts

OutputOptions(name, overwrite) == [name |-> name, overwrite |-> overwrite]

\* to_new_format with padding and extrude taken from each other
ToNewFormatSwapsPaddingExtrude(old) ==
    [enabled |-> old.enabled,
     output |-> OutputOptions(None, FALSE),
     mode |-> PackModeStatic(
         [max_size |-> old.max_size, power_of_two |-> old.power_of_two,
          padding |-> old.extrude, extrude |-> old.padding,
          allow_trim |-> old.allow_trim, algorithm |-> old.algorithm,
          page_limit |-> old.page_limit, sort |-> old.sort,
          dedupe |-> old.dedupe])]

to_new_format(old) ==
    [enabled |-> old.enabled,
     output |-> OutputOptions(None, FALSE),
     mode |-> PackModeStatic(
         [max_size |-> old.max_size, power_of_two |-> old.power_of_two,
          padding |-> old.padding, extrude |-> old.extrude,
          allow_trim |-> old.allow_trim, algorithm |-> old.algorithm,
          page_limit |-> old.page_limit, sort |-> old.sort,
          dedupe |-> old.dedupe])]

\* the old flat pack options a configuration file may hold
OldPackOptionsSet ==
    [enabled : BOOLEAN, max_size : {<<2048, 2048>>, <<1024, 1024>>},
     power_of_two : BOOLEAN, padding : {2, 4}, extrude : {1, 2},
     allow_trim : BOOLEAN, algorithm : {"MaxRects", "Guillotine"},
     page_limit : {None, Some(5)}, sort : {"Area", "MaxSide", "Name"},
     dedupe : BOOLEAN]

InitMigrate ==
    /\ old_pack \in {Some(old) : old \in OldPackOptionsSet}
    /\ new_pack = None
    /\ assets = <<>>
    /\ options = to_new_format(OldPackOptionsDefault)
    /\ pc = "idle"
    /\ sprites = <<>>
    /\ remaining_items = <<>>
    /\ atlases = <<>>
    /\ result = Pending
    /\ config = NoConfig
    /\ validation = Pending
    /\ RenderIdle
    /\ UploadIdle
    /\ MigrateIdle

\* let new_pack = old_pack.to_new_format();
ToNewFormat ==
    /\ old_pack # None
    /\ new_pack = None
    /\ new_pack' = Some(to_new_format(old_pack[1]))
    /\ UNCHANGED <<assets, options, pc, sprites, remaining_items, atlases, result,
                   config, validation, old_pack, render_vars, upload_vars,
                   migrate_vars>>

NextMigrate == ToNewFormat

SpecMigrate == InitMigrate /\ [][NextMigrate]_vars

-----------------------------------------------------------------------------
(* render_atlas, step by step, on the first page of a static packing.  A   *)
(* pixel of the canvas is Blank or names the sprite pixel it was copied    *)
(* from.                                                                   *)

MaxRenderAssets == 2

Blank == <<>>

\* ImageBuffer::new(width, height)
ImageBufferNew(size) == [p \in Pixels(size.width, size.height) |-> Blank]

\* the pixel (x, y) of the sprite number i of the page
SpritePixel(i, x, y) == <<i, x, y>>

\* the put_pixel calls of the sprite copy loop, as <<target, value>>:
\* get_pixel_checked(x, y) is Some inside the decoded image
CopyWrites(i, packed_sprite) ==
    LET rect == packed_sprite.rect
        img == packed_sprite.item.sprite.data
    IN  {<<<<rect.x + p[1], rect.y + p[2]>>, SpritePixel(i, p[1], p[2])>> :
            p \in {q \in Pixels(rect.width, rect.height) : q[1] < img.w /\ q[2] < img.h}}

\* the canvas after the put_pixel calls `writes`, each <<target, value>>
PutPixels(canvas, writes) ==
    [p \in DOMAIN canvas |->
        IF \E w \in writes : w[1] = p
        THEN (CHOOSE w \in writes : w[1] = p)[2]
        ELSE canvas[p]]

\* one entry of the history of canvas operations
RenderOp(op, i, gets, puts) == [op |-> op, sprite |-> i, gets |-> gets, puts |-> puts]

\* "a", "c", "d", "g": the files of the page
RenderFiles ==
    { Asset(Path(1, <<97>>), "Image", Full(2, 2), 1),
      Asset(Path(1, <<99>>), "Image", Full(1, 2), 3),
      Asset(Path(1, <<100>>), "Image", Full(2, 1), 4),
      Asset(Path(1, <<103>>), "Image", Full(1, 1), 7) }

RenderModes ==
    [type : {"Static"}, max_size : MaxSizes, power_of_two : BOOLEAN,
     padding : {0, 1}, extrude : {0, 1, 2}, allow_trim : {FALSE},
     page_limit : {None}, sort : {"Area"}, dedupe : {FALSE}]

\* pack_single_atlas has placed the items of the first page and calls
\* render_atlas, which has made its blank canvas
InitRender ==
    /\ assets \in FileLists(RenderFiles, MaxRenderAssets)
    /\ options \in [enabled : {TRUE}, mode : RenderModes]
    /\ sprites = sort_sprites(options, StaticItems(options, assets, <<>>, {}).items)
    /\ sprites # <<>>
    /\ validate_sprite_sizes(options, sprites) = None
    /\ pc = "pack"
    /\ remaining_items = sprites
    /\ atlases = <<>>
    /\ result = Pending
    /\ config = NoConfig
    /\ validation = Pending
    /\ old_pack = None
    /\ new_pack = None
    /\ render_sprites = PackItems(options, MaxRectsNew(AtlasSize(options)), sprites,
                                  <<>>, <<>>).packed_sprites
    /\ atlas_image = ImageBufferNew(AtlasSize(options))
    /\ render_pc = "copy"
    /\ sprite_index = 1
    /\ render_ops = <<>>
    /\ UploadIdle
    /\ MigrateIdle

outside_render ==
    <<assets, options, pc, sprites, remaining_items, atlases, result,
      config, validation, old_pack, new_pack, upload_vars, migrate_vars>>

\* the copy loop of the sprite number sprite_index
RenderCopySprite ==
    /\ render_pc = "copy"
    /\ sprite_index <= Len(render_sprites)
    /\ LET writes == CopyWrites(sprite_index, render_sprites[sprite_index])
       IN  /\ atlas_image' = PutPixels(atlas_image, writes)
           /\ render_ops' = Append(render_ops,
                                   RenderOp("copy", sprite_index, {},
                                            {w[1] : w \in writes}))
    /\ render_pc' = "extrude"
    /\ UNCHANGED <<render_sprites, sprite_index, outside_render>>

\* if self.options.extrude() > 0 { self.apply_extrude(..)?; }, the end of
\* the turn of the sprite loop
RenderApplyExtrude ==
    /\ render_pc = "extrude"
    /\ IF extrude(options) > 0
       THEN LET writes == ExtrudeWrites(options, AtlasSize(options),
                                        render_sprites[sprite_index].rect)
                gets == {w[2] : w \in writes}
                puts == {w[1] : w \in writes}
            IN  /\ render_ops' = Append(render_ops,
                                        RenderOp("extrude", sprite_index, gets, puts))
                /\ IF (gets \cup puts) \subseteq DOMAIN atlas_image
                   THEN /\ atlas_image' =
                               PutPixels(atlas_image,
                                         {<<w[1], atlas_image[w[2]]>> : w \in writes})
                        /\ render_pc' = "copy"
                        /\ sprite_index' = sprite_index + 1
                   ELSE \* get_pixel or put_pixel out of bounds: the thread panics
                        /\ render_pc' = "panicked"
                        /\ UNCHANGED <<atlas_image, sprite_index>>
       ELSE /\ render_pc' = "copy"
            /\ sprite_index' = sprite_index + 1
            /\ UNCHANGED <<atlas_image, render_ops>>
    /\ UNCHANGED <<render_sprites, outside_render>>

\* alpha_bleed(&mut atlas_dynamic), once the sprite loop is left
RenderAlphaBleed ==
    /\ render_pc = "copy"
    /\ sprite_index > Len(render_sprites)
    /\ render_ops' = Append(render_ops, RenderOp("alpha_bleed", 0, {}, {}))
    /\ render_pc' = "encode"
    /\ UNCHANGED <<render_sprites, atlas_image, sprite_index, outside_render>>

\* atlas_dynamic.write_to(..)? succeeds: Ok(buffer.into_inner())
RenderEncode ==
    /\ render_pc = "encode"
    /\ render_pc' = "returned"
    /\ UNCHANGED <<render_sprites, atlas_image, sprite_index, render_ops,
                   outside_render>>

\* atlas_dynamic.write_to(..)? fails
RenderEncodeFails ==
    /\ render_pc = "encode"
    /\ render_pc' = "failed"
    /\ UNCHANGED <<render_sprites, atlas_image, sprite_index, render_ops,
                   outside_render>>

NextRender ==
    \/ RenderCopySprite
    \/ RenderApplyExtrude
    \/ RenderAlphaBleed
    \/ RenderEncode
    \/ RenderEncodeFails

SpecRender == InitRender /\ [][NextRender]_vars

-----------------------------------------------------------------------------
(* pack_assets in static mode on lists of up to three small files, of      *)
(* which a page holds some and defers the others                           *)

MaxDeferAssets == 3

\* "a", "b", "c", "g", "t": 2x2, 2x1, 1x2, 1x1 and a 2x2 image of which one
\* pixel has alpha > 0
DeferFiles ==
    { Asset(Path(1, <<97>>), "Image", Full(2, 2), 1),
      Asset(Path(1, <<98>>), "Image", Full(2, 1), 8),
      Asset(Path(1, <<99>>), "Image", Full(1, 2), 3),
      Asset(Path(1, <<103>>), "Image", Full(1, 1), 7),
      Asset(Path(1, <<116>>), "Image", Image(2, 2, {<<0, 1>>}), 9) }

DeferModes ==
    [type : {"Static"}, max_size : {<<2, 2>>, <<3, 2>>}, power_of_two : {FALSE},
     padding : {0, 1}, extrude : {0}, allow_trim : BOOLEAN,
     page_limit : {None, Some(1)}, sort : {"Area", "Name"}, dedupe : {FALSE}]

InitDefer ==
    /\ assets \in FileLists(DeferFiles, MaxDeferAssets)
    /\ options \in [enabled : {TRUE}, mode : DeferModes]
    /\ pc = "start"
    /\ sprites = <<>>
    /\ remaining_items = <<>>
    /\ atlases = <<>>
    /\ result = Pending
    /\ config = NoConfig
    /\ validation = Pending
    /\ old_pack = None
    /\ new_pack = None
    /\ RenderIdle
    /\ UploadIdle
    /\ MigrateIdle

NextDefer ==
    \/ CheckEnabled
    \/ AssetsToSprites
    \/ SortSprites
    \/ ValidateSpriteSizes
    \/ PackSingleAtlas
    \/ RenderFails
    \/ CheckPageLimit
    \/ CreateManifest

SpecDefer == InitDefer /\ [][NextDefer]_vars

-----------------------------------------------------------------------------
(* pack_assets in animated mode under every padding and extrude, on files  *)
(* with transparent borders and files of equal content                     *)

MaxOptionAssets == 2

\* "w_1", "w_2", "x_1", "y_1", "b": "x_1" and "y_1" have the same content,
\* "w_1", "w_2" and "b" have transparent pixels at their borders
OptionFiles ==
    { Asset(Path(1, <<119, 95, 49>>), "Image", Image(2, 1, {<<0, 0>>}), 21),
      Asset(Path(1, <<119, 95, 50>>), "Image", Image(2, 1, {<<1, 0>>}), 22),
      Asset(Path(1, <<120, 95, 49>>), "Image", Full(1, 1), 25),
      Asset(Path(1, <<121, 95, 49>>), "Image", Full(1, 1), 25),
      Asset(Path(1, <<98>>), "Image", Image(2, 2, {<<1, 1>>}), 2) }

OptionModes ==
    [type : {"Animated"}, frame_pattern : {DefaultFramePattern},
     min_frames : {2, 3}, layout : {[type |-> "HorizontalStrip"]},
     default_frame_duration_ms : {100}, default_loop : {TRUE},
     padding : {0, 1, 2}, extrude : {0, 1, 2}]

InitOptions ==
    /\ assets \in FileLists(OptionFiles, MaxOptionAssets)
    /\ options \in [enabled : {TRUE}, mode : OptionModes]
    /\ pc = "start"
    /\ sprites = <<>>
    /\ remaining_items = <<>>
    /\ atlases = <<>>
    /\ result = Pending
    /\ config = NoConfig
    /\ validation = Pending
    /\ old_pack = None
    /\ new_pack = None
    /\ RenderIdle
    /\ UploadIdle
    /\ MigrateIdle

NextOptions ==
    \/ CheckEnabled
    \/ DetectAnimations
    \/ SortSprites
    \/ ValidateSpriteSizes
    \/ PackSingleAtlas
    \/ RenderFails
    \/ CheckPageLimit
    \/ CreateManifest

SpecOptions == InitOptions /\ [][NextOptions]_vars

-----------------------------------------------------------------------------
(* The polling loop of upload_cloud (src/src/upload.rs).  Durations are     *)
(* whole milliseconds.  What the Roblox API answers is an input of each     *)
(* poll.                                                                    *)

\* how many times the model lets the loop sleep
MaxRetries == 11

\* Duration::from_millis(10), the first `backoff`
InitialBackoff == 10

\* Duration::from_secs(5), in milliseconds
BackoffCap == 5000

\* (backoff * 2).min(Duration::from_secs(5)), without the cap
NextBackoffUncapped(b) == b * 2

\* (backoff * 2).min(Duration::from_secs(5))
NextBackoff(b) == Min(b * 2, BackoffCap)

\* the value of a string of decimal digits
RECURSIVE DecimalValue(_, _)
DecimalValue(digits, acc) ==
    IF digits = <<>> THEN acc
    ELSE DecimalValue(Tail(digits), acc * 10 + (Head(digits) - 48))

\* str::parse::<u64>(): an optional '+' and then one digit or more
ParseU64(s) ==
    LET digits == IF s # <<>> /\ Head(s) = 43 THEN Tail(s) ELSE s
    IN  IF digits = <<>> \/ \E i \in 1..Len(digits) : ~IsDigit(digits[i])
        THEN None
        ELSE Some(DecimalValue(digits, 0))

\* the prefix get_image_id strips from the content url
AssetUrlPrefix == "http://www.roblox.com/asset/?id="

\* get_image_id: `lookup` is None when a request or a parse of a response
\* fails, and else the content url as its part before the id and the rest
GetImageId(lookup) ==
    IF lookup = None THEN Err("Failed to get image ID")
    ELSE IF lookup[1].prefix # AssetUrlPrefix THEN Panicked
    ELSE IF ParseU64(lookup[1].id) = None THEN Err("Failed to get image ID")
    ELSE Ok(ParseU64(lookup[1].id)[1])

\* the `asset_id` strings of a response: "42", "+7", "07", "", "a", "4x"
AssetIds == {<<52, 50>>, <<43, 55>>, <<48, 55>>, <<>>, <<97>>, <<52, 120>>}

\* what the two requests of get_image_id can come back with
ImageLookups ==
    {None,
     Some([prefix |-> AssetUrlPrefix, id |-> <<52, 49>>]),
     Some([prefix |-> AssetUrlPrefix, id |-> <<97>>]),
     Some([prefix |-> "rbxassetid://", id |-> <<52, 49>>])}

\* Ok(op) of get_operation
Operation(done, response) ==
    [type |-> "Ok", done |-> done, response |-> response, code |-> 0]

\* Err(HttpStatusError { code, .. }) of get_operation
HttpStatusError(code) ==
    [type |-> "HttpStatusError", done |-> None, response |-> None, code |-> code]

\* any other Err of get_operation
OtherError ==
    [type |-> "Error", done |-> None, response |-> None, code |-> 0]

\* what get_operation can return
PollOutcomes ==
    {Operation(d, r) : d \in {None, Some(FALSE), Some(TRUE)},
                       r \in {None} \cup {Some([asset_id |-> a]) : a \in AssetIds}}
    \cup {HttpStatusError(c) : c \in {403, 404, 429, 500}}
    \cup {OtherError}

\* op.done.unwrap_or(false)
Done(op) == op.type = "Ok" /\ op.done = Some(TRUE)

\* the first match arm returns: the operation is done and has a response
DoneWithResponse(op) == Done(op) /\ op.response # None

\* the arms that fall through to the sleep
FallsThrough(op) ==
    \/ Done(op) /\ op.response = None
    \/ op.type = "Ok" /\ ~Done(op)
    \/ op.type = "HttpStatusError" /\ op.code \in {404, 429}

\* what the first match arm returns for a response
UploadReturn(kind, response, lookup) ==
    LET id == ParseU64(response.asset_id)
    IN  IF id = None THEN Err("Asset ID wasn't a number")
        ELSE IF kind = "Decal" THEN GetImageId(lookup)
        ELSE Ok(id[1])

\* pack_assets, Config::validate and to_new_format are not running
PackIdle ==
    /\ assets = <<>>
    /\ options = to_new_format(OldPackOptionsDefault)
    /\ pc = "idle"
    /\ sprites = <<>>
    /\ remaining_items = <<>>
    /\ atlases = <<>>
    /\ result = Pending
    /\ config = NoConfig
    /\ validation = Pending
    /\ old_pack = None
    /\ new_pack = None

InitUpload ==
    /\ PackIdle
    /\ RenderIdle
    /\ upload_kind \in {"Decal", "Model"}
    /\ backoff = InitialBackoff
    /\ waits = <<>>
    /\ poll = None
    /\ upload_result = Pending
    /\ MigrateIdle

outside_upload ==
    <<assets, options, pc, sprites, remaining_items, atlases, result,
      config, validation, old_pack, new_pack, render_vars, migrate_vars>>

\* a poll that finds the operation done with a response
PollReturns ==
    /\ upload_result = Pending
    /\ upload_kind # "None"
    /\ Len(waits) <= MaxRetries
    /\ \E op \in PollOutcomes, lookup \in ImageLookups :
        /\ DoneWithResponse(op)
        /\ LET looked == ParseU64(op.response[1].asset_id) # None
                         /\ upload_kind = "Decal"
           IN  /\ looked \/ lookup = None
               /\ poll' = Some([operation |-> op,
                                image |-> IF looked THEN Some(lookup) ELSE None])
        /\ upload_result' = UploadReturn(upload_kind, op.response[1], lookup)
    /\ UNCHANGED <<upload_kind, backoff, waits>>
    /\ UNCHANGED outside_upload

\* a poll after which the loop sleeps and goes round again
PollSleeps ==
    /\ upload_result = Pending
    /\ upload_kind # "None"
    /\ Len(waits) < MaxRetries
    /\ \E op \in PollOutcomes :
        /\ FallsThrough(op)
        /\ poll' = Some([operation |-> op, image |-> None])
    /\ waits' = Append(waits, backoff)
    /\ backoff' = NextBackoff(backoff)
    /\ UNCHANGED <<upload_kind, upload_result>>
    /\ UNCHANGED outside_upload

\* a poll that fails in any other way
PollBails ==
    /\ upload_result = Pending
    /\ upload_kind # "None"
    /\ Len(waits) <= MaxRetries
    /\ \E op \in PollOutcomes :
        /\ ~DoneWithResponse(op)
        /\ ~FallsThrough(op)
        /\ poll' = Some([operation |-> op, image |-> None])
    /\ upload_result' = Err("Failed to GET asset")
    /\ UNCHANGED <<upload_kind, backoff, waits>>
    /\ UNCHANGED outside_upload

NextUpload ==
    \/ PollReturns
    \/ PollSleeps
    \/ PollBails

SpecUpload == InitUpload /\ [][NextUpload]_vars

-----------------------------------------------------------------------------
(* migrate_config (src/src/migrate_config.rs).  A path is the directory     *)
(* prefix it was written with and the file name split at its dots; all      *)
(* paths name files of one directory.  The content of a file is what the    *)
(* parsers make of it (`shape`) and the syntax it is written in.            *)

\* Path::new
ConfigPath(dir, name) == [dir |-> dir, name |-> name]

\* Path::extension
Extension(path) ==
    IF Len(path.name) >= 2 THEN Some(path.name[Len(path.name)]) ELSE None

\* Path::with_extension, for an extension given as its parts
WithExtension(path, extension) ==
    LET stem == IF Len(path.name) >= 2
                THEN SubSeq(path.name, 1, Len(path.name) - 1)
                ELSE path.name
    IN  ConfigPath(path.dir, stem \o extension)

\* the file a path names: "./x" and "x" are different paths of one file
FileOf(path) == path.name

Document(shape, format) == [shape |-> shape, format |-> format]

\* "old": flat pack options; "new": deserializes as Config; "other": parses
\* as a value that is no Config in either format; "garbage": does not parse
Shapes == {"old", "new", "other", "garbage"}

\* parse_new_config: the content as a Config
parse_new_config(content) ==
    IF content.shape = "new" THEN Some(content) ELSE None

\* parse_old_config: the content as a generic value
parse_old_config(content) ==
    IF content.shape # "garbage" THEN Some(content) ELSE None

\* convert_config: every pack section that deserializes as OldPackOptions
\* is replaced by its new format
convert_config(old_value) ==
    IF old_value.shape = "old" THEN Document("new", old_value.format) ELSE old_value

\* serde_json::from_value::<Config>
ConfigFromValue(new_config) ==
    IF new_config.shape = "new" THEN Some(new_config) ELSE None

\* the serializer chosen from the extension of the output path
OutputFormat(output) ==
    LET extension == Extension(output)
    IN  IF extension = None THEN Some("toml")
        ELSE IF extension[1] \in {"json", "json5", "jsonc"} THEN Some("json")
        ELSE IF extension[1] = "toml" THEN Some("toml")
        ELSE None

\* `input` of migrate_config
InputOf(args) == args.input_path

\* `output` of migrate_config: output_path.map(Path::new).unwrap_or(input)
OutputOf(args) ==
    IF args.output_path = None THEN args.input_path ELSE args.output_path[1]

\* `backup_path` of migrate_config
BackupPath(input) ==
    LET extension == Extension(input)
    IN  WithExtension(input, <<IF extension = None THEN "toml" ELSE extension[1],
                               "old">>)

\* Ok(())
Unit == <<>>

\* migrate_config up to its file operations, without the dry-run return
MigrateOutcomeWritesOnDryRun(args, fs, serialized) ==
    LET content == fs[FileOf(InputOf(args))]
        finished(r) == [result |-> r, output_content |-> None]
    IN  IF content = None THEN finished(Err("Failed to read config"))
        ELSE IF parse_new_config(content[1]) # None /\ ~args.force
        THEN finished(Err("Configuration file is already in new format"))
        ELSE IF parse_old_config(content[1]) = None
        THEN finished(Err("Failed to parse old config"))
        ELSE IF ConfigFromValue(convert_config(parse_old_config(content[1])[1])) = None
        THEN finished(Err("Failed to convert migrated config to Config struct"))
        ELSE IF OutputFormat(OutputOf(args)) = None
        THEN finished(Err("Unsupported file extension"))
        ELSE IF ~serialized
        THEN finished(Err("Failed to serialize new config"))
        ELSE [result |-> Pending,
              output_content |->
                  Some(Document("new", OutputFormat(OutputOf(args))[1]))]

\* migrate_config up to its file operations: what it returns where it
\* returns, and `output_content` where it goes on
MigrateOutcome(args, fs, serialized) ==
    LET content == fs[FileOf(InputOf(args))]
        finished(r) == [result |-> r, output_content |-> None]
    IN  IF content = None THEN finished(Err("Failed to read config"))
        ELSE IF parse_new_config(content[1]) # None /\ ~args.force
        THEN finished(Err("Configuration file is already in new format"))
        ELSE IF parse_old_config(content[1]) = None
        THEN finished(Err("Failed to parse old config"))
        ELSE IF ConfigFromValue(convert_config(parse_old_config(content[1])[1])) = None
        THEN finished(Err("Failed to convert migrated config to Config struct"))
        ELSE IF OutputFormat(OutputOf(args)) = None
        THEN finished(Err("Unsupported file extension"))
        ELSE IF ~serialized
        THEN finished(Err("Failed to serialize new config"))
        ELSE IF args.dry_run THEN finished(Ok(Unit))
        ELSE [result |-> Pending,
              output_content |->
                  Some(Document("new", OutputFormat(OutputOf(args))[1]))]

\* a call of fs::copy or fs::write that changed a file
FsOp(op, from, to) == [op |-> op, from |-> from, to |-> to]

\* asphalt.toml, old.json, asphalt
InputPaths ==
    {ConfigPath("", <<"asphalt", "toml">>),
     ConfigPath("", <<"old", "json">>),
     ConfigPath("", <<"asphalt">>)}

\* the inputs again, ./asphalt.toml, new.toml, new.jsonc, new.yaml
OutputPaths ==
    InputPaths
    \cup {ConfigPath("./", <<"asphalt", "toml">>),
          ConfigPath("", <<"new", "toml">>),
          ConfigPath("", <<"new", "jsonc">>),
          ConfigPath("", <<"new", "yaml">>)}

\* the files the paths and their backup paths name
FileNames ==
    {FileOf(p) : p \in OutputPaths} \cup {FileOf(BackupPath(p)) : p \in InputPaths}

MigrateArgs ==
    [input_path : InputPaths,
     output_path : {None} \cup {Some(p) : p \in OutputPaths},
     dry_run : BOOLEAN,
     force : BOOLEAN]

InitMigrateFile ==
    /\ PackIdle
    /\ RenderIdle
    /\ UploadIdle
    /\ migrate_args \in {Some(args) : args \in MigrateArgs}
    /\ file_system \in
          {[n \in FileNames |-> IF n = FileOf(InputOf(migrate_args[1])) THEN c ELSE None] :
              c \in {None} \cup {Some(Document(shape, "toml")) : shape \in Shapes}}
    /\ old_file_system = file_system
    /\ migrate_pc = "start"
    /\ output_content = None
    /\ fs_ops = <<>>
    /\ migrate_result = Pending

outside_migrate ==
    <<assets, options, pc, sprites, remaining_items, atlases, result,
      config, validation, old_pack, new_pack, render_vars, upload_vars>>

\* lines 74 to 121: read, parse, convert, serialize, and the dry-run return
MigrateConvert ==
    /\ migrate_pc = "start"
    /\ \E serialized \in BOOLEAN :
        LET outcome == MigrateOutcome(migrate_args[1], file_system, serialized)
        IN  /\ migrate_result' = outcome.result
            /\ output_content' = outcome.output_content
            /\ migrate_pc' = IF outcome.result = Pending THEN "backup" ELSE "done"
    /\ UNCHANGED <<migrate_args, file_system, old_file_system, fs_ops>>
    /\ UNCHANGED outside_migrate

\* lines 124 to 132: the backup, made when the two paths are equal
MigrateBackup ==
    /\ migrate_pc = "backup"
    /\ LET input == InputOf(migrate_args[1])
           output == OutputOf(migrate_args[1])
           backup_path == BackupPath(input)
       IN  IF output = input
           THEN \E copied \in BOOLEAN :
                   IF copied
                   THEN /\ file_system' =
                              [file_system EXCEPT ![FileOf(backup_path)] =
                                                      file_system[FileOf(input)]]
                        /\ fs_ops' = Append(fs_ops, FsOp("copy", FileOf(input),
                                                         FileOf(backup_path)))
                        /\ migrate_pc' = "write"
                        /\ UNCHANGED migrate_result
                   ELSE /\ migrate_result' = Err("Failed to create backup")
                        /\ migrate_pc' = "done"
                        /\ UNCHANGED <<file_system, fs_ops>>
           ELSE /\ migrate_pc' = "write"
                /\ UNCHANGED <<file_system, fs_ops, migrate_result>>
    /\ UNCHANGED <<migrate_args, old_file_system, output_content>>
    /\ UNCHANGED outside_migrate

\* lines 135 to 146: fs::write replaces the file, fails before it touches
\* the file, or fails after it has emptied it
MigrateWrite ==
    /\ migrate_pc = "write"
    /\ LET output == OutputOf(migrate_args[1])
       IN  \E written \in {"all", "nothing", "part"} :
              /\ migrate_result' = IF written = "all" THEN Ok(Unit)
                                   ELSE Err("Failed to write new config")
              /\ file_system' =
                    IF written = "nothing" THEN file_system
                    ELSE [file_system EXCEPT ![FileOf(output)] =
                             IF written = "all" THEN output_content
                             ELSE Some(Document("garbage", output_content[1].format))]
              /\ fs_ops' = IF written = "nothing" THEN fs_ops
                           ELSE Append(fs_ops, FsOp("write", FileOf(output), FileOf(output)))
    /\ migrate_pc' = "done"
    /\ UNCHANGED <<migrate_args, old_file_system, output_content>>
    /\ UNCHANGED outside_migrate

NextMigrateFile ==
    \/ MigrateConvert
    \/ MigrateBackup
    \/ MigrateWrite

SpecMigrateFile == InitMigrateFile /\ [][NextMigrateFile]_vars

-----------------------------------------------------------------------------
(* Properties *)

\* what identifies an item through trimming: its variant, name and hash
ItemKey(item) == <<item.kind, item.sprite.name, item.sprite.hash>>

RECURSIVE PlacedItems(_)
PlacedItems(atlas_list) ==
    IF atlas_list = <<>> THEN <<>>
    ELSE [i \in 1 .. Len(Head(atlas_list).sprites) |-> Head(atlas_list).sprites[i].item]
         \o PlacedItems(Tail(atlas_list))

KeyCount(item_list, key) ==
    Cardinality({i \in 1 .. Len(item_list) : ItemKey(item_list[i]) = key})

Returned == result.kind = "Ok"

Failed == result.kind = "Err"

FailedWith(type) == Failed /\ result.error[1].type = type

Sorted == pc \notin {"start", "convert", "sort"}

\* C1: when pack_assets succeeds, every item of the sorted item list is a
\* PackedSprite of exactly one returned atlas, exactly once; otherwise the
\* call ends in an error that carries no result.
C1_EveryItemPlacedOnce ==
    /\ Returned =>
          LET placed == PlacedItems(result.value[1].atlases)
          IN  /\ Len(placed) = Len(sprites)
              /\ \A i \in 1 .. Len(sprites) :
                     KeyCount(placed, ItemKey(sprites[i]))
                         = KeyCount(sprites, ItemKey(sprites[i]))
    /\ ~Returned => result.value = None
    /\ pc = "done" => Returned \/ Failed

C1_Witness ==
    /\ Returned
    /\ Len(sprites) = 2
    /\ Len(result.value[1].atlases) = 2

\* the page size derived from the configured maximum: the maximum itself,
\* or per axis the smallest power of two not below it
IsPowerOfTwo(n) == \E k \in 0 .. 11 : n = 2 ^ k

PageBound(m) ==
    IF options.mode.type = "Static" /\ options.mode.power_of_two
    THEN CHOOSE p \in m .. (2 * m) :
             IsPowerOfTwo(p) /\ \A q \in m .. (p - 1) : ~IsPowerOfTwo(q)
    ELSE m

ConfiguredMax ==
    IF options.mode.type = "Static" THEN options.mode.max_size ELSE <<2048, 2048>>

RectWithin(rect, width, height) ==
    /\ 0 <= rect.x
    /\ 0 <= rect.y
    /\ rect.x + rect.width <= width
    /\ rect.y + rect.height <= height

Disjoint(a, b) ==
    \/ a.x + a.width <= b.x
    \/ b.x + b.width <= a.x
    \/ a.y + a.height <= b.y
    \/ b.y + b.height <= a.y

NoOverlapOnPage(atlas) ==
    \A i, j \in 1 .. Len(atlas.sprites) :
        i # j => Disjoint(atlas.sprites[i].rect, atlas.sprites[j].rect)

\* C2 as stated: every PackedSprite rect lies within [0, M) on both axes, M
\* the configured maximum page size, and no two rects of a page overlap.
C2_RectsWithinMaxSize ==
    \A p \in 1 .. Len(atlases) :
        /\ \A i \in 1 .. Len(atlases[p].sprites) :
               RectWithin(atlases[p].sprites[i].rect, ConfiguredMax[1], ConfiguredMax[2])
        /\ NoOverlapOnPage(atlases[p])

\* C2 amended: every PackedSprite rect lies within the bounds of its page,
\* which are the configured maximum size, rounded up per axis to a power of
\* two when power-of-two sizing is on; no two rects of a page overlap.
C2_RectsWithinPage ==
    \A p \in 1 .. Len(atlases) :
        /\ \A i \in 1 .. Len(atlases[p].sprites) :
               RectWithin(atlases[p].sprites[i].rect,
                          PageBound(ConfiguredMax[1]), PageBound(ConfiguredMax[2]))
        /\ NoOverlapOnPage(atlases[p])

C2_Witness ==
    /\ Len(atlases) = 1
    /\ Len(atlases[1].sprites) = 2
    /\ options.mode.padding = 1
    /\ atlases[1].sprites[2].rect.x + atlases[1].sprites[2].rect.width
           > ConfiguredMax[1]

\* C3: every page-creation pass places at least one item, or else the
\* operation fails: no page without a sprite is made while the call goes on.
C3_EveryPassPlacesOrFails ==
    \A p \in 1 .. Len(atlases) : atlases[p].sprites = <<>> => Failed

LimitExceeded ==
    /\ options.mode.type = "Static"
    /\ options.mode.page_limit # None
    /\ Len(atlases) > options.mode.page_limit[1]

\* the while loop was left and the page limit check has been made
LimitChecked == pc \in {"manifest", "done"} /\ atlases # <<>> /\ remaining_items = <<>>

\* C4: once all items are packed, more pages than the configured limit make
\* pack_assets fail with the page count and the limit in the error and no
\* result; a page count within the limit is not rejected.
C4_PageLimitEnforced ==
    /\ Returned => ~LimitExceeded
    /\ LimitChecked /\ LimitExceeded =>
          /\ FailedWith("PageLimit")
          /\ result.error[1].pages = Len(atlases)
          /\ result.error[1].limit = options.mode.page_limit[1]
          /\ result.value = None
    /\ LimitChecked /\ ~LimitExceeded => ~Failed

C4_Witness ==
    /\ FailedWith("PageLimit")
    /\ result.error[1].pages = 2
    /\ result.error[1].limit = 1

HasCorruptImage ==
    \E i \in 1 .. Len(assets) : assets[i].ty = "Image" /\ ~assets[i].data.valid

PatternInvalid ==
    options.mode.type = "Animated" /\ options.mode.frame_pattern # DefaultFramePattern

ExceedsMax(item) ==
    \/ item.sprite.data.w > ConfiguredMax[1]
    \/ item.sprite.data.h > ConfiguredMax[2]

\* C5: a failed call returns one error and no atlas or manifest, also when
\* pages had been packed; a call returns a result only when no failure
\* condition holds, and then the result holds every page made.
C5_AllOrNothing ==
    /\ Failed => result.value = None /\ Len(result.error) = 1
    /\ Returned =>
          /\ options.enabled
          /\ ~PatternInvalid
          /\ ~HasCorruptImage
          /\ \A i \in 1 .. Len(sprites) : ~ExceedsMax(sprites[i])
          /\ ~LimitExceeded
          /\ result.value[1].atlases = atlases
          /\ result.error = None
    /\ pc = "done" => Returned \/ Failed

C5_Witness ==
    /\ Failed
    /\ Len(atlases) = 2
    /\ atlases[1].sprites # <<>>
    /\ atlases[2].sprites # <<>>

\* C6: a second run on the same asset list and options yields the same
\* sorted item order as this run, in static and in animated mode.
C6_SameSortedOrderEveryRun ==
    pc = "validate" =>
        IF options.mode.type = "Animated"
        THEN \A hash_order \in IterationOrders(AnimationNames(assets, options.mode)) :
                 sort_sprites(options,
                              detect_animations(assets, options.mode, hash_order).items)
                     = sprites
        ELSE sort_sprites(options, StaticItems(options, assets, <<>>, {}).items) = sprites

SortKey == IF options.mode.type = "Static" THEN options.mode.sort ELSE "Area"

NameLeq(a, b) == StrCmp(a.name, b.name) <= 0

Area(sprite) == sprite.size.width * sprite.size.height

LongestSide(sprite) ==
    IF sprite.size.width >= sprite.size.height THEN sprite.size.width
    ELSE sprite.size.height

\* C7: after sort_sprites every adjacent pair (a, b) is in order: under Area
\* a's area >= b's, under MaxSide a's longest side >= b's, under Name a's
\* name <= b's, and with equal primary keys a's name <= b's name.
C7_SortedAdjacentPairs ==
    Sorted =>
        \A i \in 1 .. (Len(sprites) - 1) :
            LET a == sprites[i].sprite
                b == sprites[i + 1].sprite
            IN  CASE SortKey = "Area" ->
                        /\ Area(a) >= Area(b)
                        /\ Area(a) = Area(b) => NameLeq(a, b)
                  [] SortKey = "MaxSide" ->
                        /\ LongestSide(a) >= LongestSide(b)
                        /\ LongestSide(a) = LongestSide(b) => NameLeq(a, b)
                  [] SortKey = "Name" -> NameLeq(a, b)

C7_Witness ==
    /\ pc = "validate"
    /\ SortKey = "Area"
    /\ Len(sprites) = 2
    /\ Len(assets) = 2
    /\ Area(sprites[1].sprite) = Area(sprites[2].sprite)
    /\ sprites[1].sprite.name # sprites[2].sprite.name
    /\ sprites[1].sprite.name = assets[2].path.stem

\* C8: sort_sprites applied to the sequence it has sorted leaves it as it is.
C8_SortIdempotent ==
    Sorted => sort_sprites(options, sprites) = sprites

C8_Witness ==
    /\ pc = "validate"
    /\ Len(sprites) = 2
    /\ sprites[1].sprite.name = sprites[2].sprite.name
    /\ sprites[1].sprite.size = sprites[2].sprite.size
    /\ sprites[1] # sprites[2]

\* C9: an item whose pre-trim width or height exceeds the configured maximum
\* makes pack_assets fail before any page is created, the error naming that
\* sprite and its size; with no such item validation passes.
C9_OversizeRejectedBeforePacking ==
    /\ FailedWith("ExceedsMaxSize") =>
          /\ atlases = <<>>
          /\ \E i \in 1 .. Len(sprites) :
                 /\ ExceedsMax(sprites[i])
                 /\ result.error[1].name = sprites[i].sprite.name
                 /\ result.error[1].width = sprites[i].sprite.data.w
                 /\ result.error[1].height = sprites[i].sprite.data.h
    /\ (\E i \in 1 .. Len(sprites) : ExceedsMax(sprites[i])) =>
          /\ atlases = <<>>
          /\ pc \notin {"pack", "manifest"}
          /\ pc = "done" => FailedWith("ExceedsMaxSize")
    /\ (\A i \in 1 .. Len(sprites) : ~ExceedsMax(sprites[i])) =>
          ~FailedWith("ExceedsMaxSize")

C9_Witness ==
    /\ FailedWith("ExceedsMaxSize")
    /\ result.error[1].width <= ConfiguredMax[1]
    /\ result.error[1].height > ConfiguredMax[2]

ImageAssets == {i \in 1 .. Len(assets) : assets[i].ty = "Image"}

FirstWithHash(hash) ==
    CHOOSE i \in ImageAssets :
        /\ assets[i].hash = hash
        /\ \A j \in ImageAssets : assets[j].hash = hash => i <= j

\* C10: in static mode with dedupe on, of the image assets of one content
\* hash exactly one item is in the item list, the first in input order;
\* with dedupe off every image asset has its own item.
C10_DedupeKeepsFirst ==
    options.mode.type = "Static" /\ sprites # <<>> =>
        IF options.mode.dedupe
        THEN /\ \A i \in ImageAssets :
                    LET same == {k \in 1 .. Len(sprites) :
                                     sprites[k].sprite.hash = assets[i].hash}
                    IN  /\ Cardinality(same) = 1
                        /\ \A k \in same :
                               sprites[k].sprite.name
                                   = assets[FirstWithHash(assets[i].hash)].path.stem
             /\ Len(sprites) = Cardinality({assets[i].hash : i \in ImageAssets})
        ELSE /\ Len(sprites) = Cardinality(ImageAssets)
             /\ \A i \in ImageAssets :
                    Cardinality({k \in 1 .. Len(sprites) :
                                     /\ sprites[k].sprite.name = assets[i].path.stem
                                     /\ sprites[k].sprite.hash = assets[i].hash})
                        = Cardinality({j \in ImageAssets :
                                           /\ assets[j].path.stem = assets[i].path.stem
                                           /\ assets[j].hash = assets[i].hash})

C10_Witness ==
    /\ options.mode.type = "Static"
    /\ options.mode.dedupe
    /\ Len(assets) = 2
    /\ assets[1].ty = "Image"
    /\ assets[2].ty = "Image"
    /\ assets[1].hash = assets[2].hash
    /\ StrCmp(assets[1].path.stem, assets[2].path.stem) > 0
    /\ Len(sprites) = 1
    /\ sprites[1].sprite.name = assets[1].path.stem

-----------------------------------------------------------------------------
(* Properties of animation detection, read off the asset list *)

AnimatedMode == options.mode.type = "Animated"

\* detect_animations has just returned its item list into `sprites`
Detected == AnimatedMode /\ pc = "sort"

Matches(i) == FrameCaptures(assets[i].path.stem) # None

\* the animation name and the frame index of a matching asset
NameOf(i) == FrameCaptures(assets[i].path.stem)[1].name

IndexOf(i) == ParseDigits(FrameCaptures(assets[i].path.stem)[1].number, 0)

GroupNames == {NameOf(i) : i \in {j \in ImageAssets : Matches(j)}}

GroupOf(n) == {i \in ImageAssets : Matches(i) /\ NameOf(i) = n}

\* the frames of a group: of the assets of one frame index, the last
FramesOf(n) ==
    LET group == GroupOf(n)
    IN  {i \in group : \A j \in group : IndexOf(j) = IndexOf(i) => j <= i}

StripsNamed(n) ==
    {k \in 1 .. Len(sprites) :
         sprites[k].kind = "Animated" /\ sprites[k].sprite.name = n}

StaticsOf(i) ==
    {k \in 1 .. Len(sprites) :
         /\ sprites[k].kind = "Static"
         /\ sprites[k].sprite.name = assets[i].path.stem
         /\ sprites[k].sprite.hash = assets[i].hash}

\* C11: of every animation name group with fewer frames than min_frames no
\* strip is built and each frame is one Static item under its file stem; of
\* every other group there is exactly one Animated item and no frame of it
\* is a Static item.
C11_GroupDissolvedOrCombined ==
    Detected =>
        \A n \in GroupNames :
            IF Cardinality(FramesOf(n)) < options.mode.min_frames
            THEN /\ StripsNamed(n) = {}
                 /\ \A i \in FramesOf(n) : Cardinality(StaticsOf(i)) = 1
            ELSE /\ Cardinality(StripsNamed(n)) = 1
                 /\ \A i \in GroupOf(n) : StaticsOf(i) = {}

\* a group of exactly min_frames frames is combined, another is dissolved
C11_Witness ==
    /\ Detected
    /\ \E n \in GroupNames :
           /\ Cardinality(FramesOf(n)) = options.mode.min_frames
           /\ Cardinality(StripsNamed(n)) = 1
    /\ \E n \in GroupNames :
           /\ Cardinality(FramesOf(n)) < options.mode.min_frames
           /\ \A i \in FramesOf(n) : Cardinality(StaticsOf(i)) = 1

\* the frame of the lowest frame index of a group
FirstFrame(n) ==
    LET frames == FramesOf(n)
    IN  CHOOSE i \in frames : \A j \in frames : IndexOf(i) <= IndexOf(j)

\* the least k with k * k >= n, and the least r with r * c >= n
CeilRoot(n) == CHOOSE k \in 1 .. n : k * k >= n /\ (k - 1) * (k - 1) < n

CeilQuot(n, c) == CHOOSE r \in 1 .. n : r * c >= n /\ (r - 1) * c < n

\* C12: a strip of N frames whose first frame is w x h has frame_count N
\* and is w*N x h (horizontal), w x h*N (vertical) or w*columns x h*rows
\* (grid), columns the configured value or ceil(sqrt(N)), rows
\* ceil(N / columns).
C12_StripCanvasSize ==
    Detected =>
        \A k \in 1 .. Len(sprites) :
            sprites[k].kind = "Animated" =>
                LET n == sprites[k].sprite.name
                    N == Cardinality(FramesOf(n))
                    first == assets[FirstFrame(n)]
                    w == first.data.w
                    h == first.data.h
                    layout == options.mode.layout
                    columns == IF layout.type = "Grid" /\ layout.columns # None
                               THEN layout.columns[1] ELSE CeilRoot(N)
                IN  /\ sprites[k].frame_count = N
                    /\ sprites[k].frame_size = Size(w, h)
                    /\ sprites[k].sprite.size =
                           CASE layout.type = "HorizontalStrip" -> Size(w * N, h)
                             [] layout.type = "VerticalStrip" -> Size(w, h * N)
                             [] layout.type = "Grid" ->
                                    Size(w * columns, h * CeilQuot(N, columns))

\* three frames of 2 x 1 in a grid of computed width: 2 columns, 2 rows
C12_Witness ==
    /\ Detected
    /\ options.mode.layout = [type |-> "Grid", columns |-> None]
    /\ \E k \in 1 .. Len(sprites) :
           /\ sprites[k].kind = "Animated"
           /\ sprites[k].frame_count = 3
           /\ sprites[k].frame_size = Size(2, 1)
           /\ sprites[k].sprite.size = Size(4, 2)

NonMatching == {i \in ImageAssets : ~Matches(i)}

Dissolved == {n \in GroupNames : Cardinality(FramesOf(n)) < options.mode.min_frames}

ItemsOfKind(kind) == {k \in 1 .. Len(sprites) : sprites[k].kind = kind}

\* C13: in animated mode every image asset whose stem does not match the
\* frame pattern is exactly one Static item under its stem, whatever groups
\* the other assets form; the Static items are these and the frames of the
\* dissolved groups, the Animated items one per remaining group.
C13_NonMatchingBecomesStatic ==
    Detected =>
        /\ \A i \in NonMatching :
               /\ Cardinality(StaticsOf(i)) = 1
               /\ \A k \in StaticsOf(i) :
                      /\ sprites[k].sprite.data = assets[i].data
                      /\ sprites[k].sprite.size = Size(assets[i].data.w, assets[i].data.h)
        /\ Cardinality(ItemsOfKind("Static"))
               = Cardinality(NonMatching \cup UNION {FramesOf(n) : n \in Dissolved})
        /\ Cardinality(ItemsOfKind("Animated")) = Cardinality(GroupNames \ Dissolved)

\* one animation of two frames and one file that does not match: one
\* Animated and one Static item
C13_Witness ==
    /\ Detected
    /\ Len(assets) = 3
    /\ Cardinality(NonMatching) = 1
    /\ Cardinality(GroupNames) = 1
    /\ Cardinality(ItemsOfKind("Animated")) = 1
    /\ Cardinality(ItemsOfKind("Static")) = 1
    /\ \E i \in NonMatching : \E k \in ItemsOfKind("Static") :
           sprites[k].sprite.name = assets[i].path.stem

\* the animation name group an item comes from, None for a non-matching file
GroupOfItem(item) ==
    IF item.kind = "Animated" THEN Some(item.sprite.name)
    ELSE IF FrameCaptures(item.sprite.name) = None THEN None
    ELSE Some(FrameCaptures(item.sprite.name)[1].name)

\* C19: the item sequence detect_animations returns is the same for every
\* order in which the map of name groups may be iterated, the non-matching
\* statics first and the groups in the order of their names.
C19_DetectionOrderFixed ==
    Detected =>
        /\ \A hash_order \in IterationOrders(AnimationNames(assets, options.mode)) :
               detect_animations(assets, options.mode, hash_order).items = sprites
        /\ \A k1, k2 \in 1 .. Len(sprites) :
               k1 < k2 =>
                   \/ GroupOfItem(sprites[k1]) = None
                   \/ /\ GroupOfItem(sprites[k2]) # None
                      /\ StrCmp(GroupOfItem(sprites[k1])[1],
                                GroupOfItem(sprites[k2])[1]) <= 0

SpriteOfAsset(i) ==
    Sprite(assets[i].path.stem, assets[i].data,
           Size(assets[i].data.w, assets[i].data.h), assets[i].hash)

\* the sprites of a set of assets of distinct frame indices, by ascending index
RECURSIVE AscendingFrames(_)
AscendingFrames(S) ==
    IF S = {} THEN <<>>
    ELSE LET i == CHOOSE a \in S : \A b \in S : IndexOf(a) <= IndexOf(b)
         IN  <<SpriteOfAsset(i)>> \o AscendingFrames(S \ {i})

\* the Static items of the frames of a group, in the order of the item list
StaticsOfGroup(n) ==
    LET InGroup(item) == item.kind = "Static" /\ GroupOfItem(item) = Some(n)
    IN  SelectSeq(sprites, InGroup)

\* C20: a name group holds one frame per distinct frame index, of the
\* assets of one index (index 0 for a number that does not parse) the last
\* in input order, and its frames are composed, or handed on when the group
\* is dissolved, by ascending frame index whatever the input order.
C20_FramesByIndexLastWins ==
    Detected =>
        \A n \in GroupNames :
            LET frames == AscendingFrames(FramesOf(n))
            IN  /\ Len(frames) = Cardinality({IndexOf(i) : i \in GroupOf(n)})
                /\ IF n \in Dissolved
                   THEN StaticsOfGroup(n) = [k \in 1 .. Len(frames) |-> Static(frames[k])]
                   ELSE \A k \in StripsNamed(n) :
                            /\ sprites[k].frame_count = Len(frames)
                            /\ sprites[k] = combine_frames_into_strip(
                                                n, frames, options.mode.layout,
                                                options.mode.default_frame_duration_ms,
                                                options.mode.default_loop).item[1]

\* two assets whose numbers do not parse share index 0 and the frame of
\* index 1 comes before them in the input: a strip of two frames
C20_Witness ==
    /\ Detected
    /\ \E n \in GroupNames :
           /\ \E i, j \in GroupOf(n) : i < j /\ IndexOf(i) = 0 /\ IndexOf(j) = 0
           /\ \E i, j \in FramesOf(n) : i < j /\ IndexOf(i) > IndexOf(j)
           /\ Cardinality(GroupOf(n)) = 3
           /\ \E k \in StripsNamed(n) : sprites[k].frame_count = 2

-----------------------------------------------------------------------------
(* Properties of trimming *)

\* the item of the sorted, untrimmed list that a placed item comes from
SourceOf(item) ==
    CHOOSE i \in 1 .. Len(sprites) : ItemKey(sprites[i]) = ItemKey(item)

RECURSIVE PlacedSprites(_)
PlacedSprites(atlas_list) ==
    IF atlas_list = <<>> THEN <<>>
    ELSE Head(atlas_list).sprites \o PlacedSprites(Tail(atlas_list))

\* C14: the manifest entry of every placed item records the item's size
\* before trimming as source_size, also when trim_sprite cropped it.
C14_ManifestSourceSizeIsPreTrim ==
    Returned =>
        LET placed == PlacedSprites(result.value[1].atlases)
            entries == result.value[1].manifest.sprites
        IN  /\ Len(entries) = Len(placed)
            /\ \A k \in 1 .. Len(entries) :
                   entries[k].source_size
                       = sprites[SourceOf(placed[k].item)].sprite.size

\* C16: a PackedSprite whose pixels trimming cropped, on whichever page it
\* lands, has the post-trim size as its sprite size, trimmed true and a
\* pre-trim rect of the original width and height; one that was not cropped
\* has trimmed false and no pre-trim rect.
C16_TrimFlagsMatchCropping ==
    \A p \in 1 .. Len(atlases) :
        \A k \in 1 .. Len(atlases[p].sprites) :
            LET packed_sprite == atlases[p].sprites[k]
                stored == packed_sprite.item.sprite
                source == sprites[SourceOf(packed_sprite.item)].sprite
            IN  /\ stored.size = Size(stored.data.w, stored.data.h)
                /\ IF stored.data # source.data
                   THEN /\ packed_sprite.trimmed
                        /\ packed_sprite.sprite_source_size # None
                        /\ packed_sprite.sprite_source_size[1].width = source.size.width
                        /\ packed_sprite.sprite_source_size[1].height
                               = source.size.height
                   ELSE /\ ~packed_sprite.trimmed
                        /\ packed_sprite.sprite_source_size = None

\* C15: the manifest entry of every Animated item with grid layout carries
\* the column count its strip was composed with, the configured one or
\* ceil(sqrt(frame_count)): columns times the frame width is the strip width
\* and every frame offset derived from it lies inside the strip.
C15_ManifestGridColumnsUsed ==
    Returned =>
        LET entries == result.value[1].manifest.sprites
        IN  \A k \in 1 .. Len(entries) :
                (entries[k].animation # None
                    /\ entries[k].animation[1].layout.type = "Grid") =>
                    LET info == entries[k].animation[1]
                        columns == info.layout.columns
                    IN  /\ columns * info.frame_size.width = entries[k].rect.width
                        /\ \A f \in 0 .. (info.frame_count - 1) :
                               /\ ((f % columns) + 1) * info.frame_size.width
                                      <= entries[k].rect.width
                               /\ ((f \div columns) + 1) * info.frame_size.height
                                      <= entries[k].rect.height

-----------------------------------------------------------------------------
(* Properties of the frame pattern check *)

\* the pack options of an input are animated with a pattern that is no regex
BadPattern(input) ==
    /\ input.pack # None
    /\ input.pack[1].mode.type = "Animated"
    /\ input.pack[1].mode.frame_pattern # DefaultFramePattern

\* C17: with a frame pattern that does not compile, detect_animations fails
\* with the pattern error before it decodes any asset and no item or page
\* is made; Config::validate fails exactly when some input is animated with
\* such a pattern, its error naming that input and that pattern, and
\* succeeds otherwise.
C17_InvalidPatternFailsFast ==
    /\ (options.enabled /\ PatternInvalid) =>
           /\ sprites = <<>>
           /\ atlases = <<>>
           /\ pc \in {"start", "convert", "done"}
           /\ pc = "done" =>
                  /\ FailedWith("InvalidFramePattern")
                  /\ result.error[1].pattern = options.mode.frame_pattern
    /\ validation.kind = "Err" =>
           \E n \in DOMAIN config.inputs :
               /\ BadPattern(config.inputs[n])
               /\ validation.error[1].input_name = n
               /\ validation.error[1].frame_pattern
                      = config.inputs[n].pack[1].mode.frame_pattern
    /\ validation.kind = "Ok" =>
           \A n \in DOMAIN config.inputs : ~BadPattern(config.inputs[n])

\* both inputs carry a bad pattern and validate names the one it meets
\* first; the packing of "sprites" fails on its pattern although its first
\* asset does not decode
C17_Witness ==
    /\ validation.kind = "Err"
    /\ validation.error[1].input_name = "ui"
    /\ validation.error[1].frame_pattern = UnclosedClassPattern
    /\ FailedWith("InvalidFramePattern")
    /\ result.error[1].pattern = InvalidFramePattern
    /\ assets # <<>>
    /\ ~assets[1].data.valid

-----------------------------------------------------------------------------
(* Properties of the configuration migration *)

StaticFields ==
    {"max_size", "power_of_two", "padding", "extrude", "allow_trim", "algorithm",
     "page_limit", "sort", "dedupe"}

\* C18: to_new_format yields pack options in Static mode with the enabled
\* flag and each of the nine static fields as in the old flat options,
\* output name None and overwrite false; the defaults of the old format
\* give the defaults of StaticOptions.
C18_ToNewFormatKeepsFields ==
    new_pack # None =>
        LET old == old_pack[1]
            new == new_pack[1]
        IN  /\ new.enabled = old.enabled
            /\ new.output.name = None
            /\ new.output.overwrite = FALSE
            /\ new.mode.type = "Static"
            /\ DOMAIN new.mode = StaticFields \cup {"type"}
            /\ \A f \in StaticFields : new.mode[f] = old[f]
            /\ old = OldPackOptionsDefault =>
                   \A f \in StaticFields : new.mode[f] = StaticOptionsDefault[f]

\* the options of test_old_to_new_conversion, converted
C18_Witness ==
    /\ new_pack # None
    /\ old_pack[1].enabled
    /\ old_pack[1].padding = 4
    /\ old_pack[1].extrude = 2
    /\ old_pack[1].sort = "MaxSide"
    /\ new_pack[1].mode.max_size = <<1024, 1024>>
    /\ new_pack[1].mode.page_limit = Some(5)
    /\ new_pack[1].mode.dedupe

-----------------------------------------------------------------------------
(* Properties of rendering *)

OpsOf(kind) == {k \in 1 .. Len(render_ops) : render_ops[k].op = kind}

\* render_atlas has left its sprite loop and has run alpha_bleed
Bled == render_pc \in {"encode", "returned", "failed"}

\* C21: on every page every sprite is copied before any extrusion writes a
\* pixel: no sprite copy follows an extrusion write on the canvas; alpha
\* bleed runs exactly once, after every copy and every extrusion.
C21_ExtrudeAndBleedAfterAllBlits ==
    /\ \A j \in OpsOf("extrude") : \A k \in OpsOf("copy") :
           render_ops[j].puts # {} => k < j
    /\ \A j \in OpsOf("alpha_bleed") : j = Len(render_ops)
    /\ Bled =>
           /\ Cardinality(OpsOf("alpha_bleed")) = 1
           /\ Cardinality(OpsOf("copy")) = Len(render_sprites)

CanvasPixels == DOMAIN atlas_image

\* for each e of 1 .. n, each side of the rect and each pixel of the
\* sprite's edge on that side: <<the position e pixels outside, the edge pixel>>
EdgeCopies(rect, n) ==
    LET left == {<<<<rect.x - e, y>>, <<rect.x, y>>>> :
                     e \in 1 .. n, y \in rect.y .. (rect.y + rect.height - 1)}
        right == {<<<<rect.x + rect.width - 1 + e, y>>, <<rect.x + rect.width - 1, y>>>> :
                     e \in 1 .. n, y \in rect.y .. (rect.y + rect.height - 1)}
        top == {<<<<x, rect.y - e>>, <<x, rect.y>>>> :
                     e \in 1 .. n, x \in rect.x .. (rect.x + rect.width - 1)}
        bottom == {<<<<x, rect.y + rect.height - 1 + e>>, <<x, rect.y + rect.height - 1>>>> :
                     e \in 1 .. n, x \in rect.x .. (rect.x + rect.width - 1)}
    IN  left \cup right \cup top \cup bottom

\* C22: apply_extrude with extrude width N writes, for each e of 1 .. N and
\* each side of the placed rect, the sprite's edge pixel to the position e
\* pixels outside that edge exactly when the position lies on the canvas;
\* every coordinate it reads or writes lies on the canvas and none is
\* negative, also for rects that touch a border of the page.
C22_ExtrudeClippedToCanvas ==
    /\ render_pc # "panicked"
    /\ \A k \in OpsOf("extrude") :
           LET op == render_ops[k]
               rect == render_sprites[op.sprite].rect
               wanted == {c \in EdgeCopies(rect, extrude(options)) : c[1] \in CanvasPixels}
           IN  /\ op.puts = {c[1] : c \in wanted}
               /\ op.gets = {c[2] : c \in wanted}
               /\ (op.gets \cup op.puts) \subseteq CanvasPixels
               /\ \A p \in op.gets \cup op.puts : p[1] >= 0 /\ p[2] >= 0
               /\ k = Len(render_ops) =>
                      \A c \in wanted :
                          atlas_image[c[1]]
                              = SpritePixel(op.sprite, c[2][1] - rect.x, c[2][2] - rect.y)

\* extrude 2 on a sprite in the top-left corner of the page, one pixel from
\* the right border: nothing is written left or above, on the right the
\* first ring is written and the second is not
C22_Witness ==
    /\ extrude(options) = 2
    /\ \E k \in OpsOf("extrude") :
           LET op == render_ops[k]
               rect == render_sprites[op.sprite].rect
           IN  /\ rect.x = 0
               /\ rect.y = 0
               /\ rect.x + rect.width + 1 = AtlasSize(options).width
               /\ <<rect.x + rect.width, rect.y>> \in op.puts
               /\ op.puts # {}
               /\ \A p \in op.puts : p[1] <= rect.x + rect.width
               /\ atlas_image[<<rect.x + rect.width, rect.y>>]
                      = SpritePixel(op.sprite, rect.width - 1, 0)

-----------------------------------------------------------------------------
(* Properties of the page size and of the page passes *)

\* C23: with power-of-two sizing on every page is, per axis, the smallest
\* power of two not below the configured maximum; with it off every page has
\* the configured maximum size; the packer places within that size, the
\* canvas is rendered at that size, and all pages of a call have one size.
C23_PageSizeFromMaxSize ==
    \A p \in 1 .. Len(atlases) :
        LET page == atlases[p]
        IN  /\ page.size.width = PageBound(ConfiguredMax[1])
            /\ page.size.height = PageBound(ConfiguredMax[2])
            /\ power_of_two(options) =>
                   IsPowerOfTwo(page.size.width) /\ IsPowerOfTwo(page.size.height)
            /\ ~power_of_two(options) =>
                   page.size = Size(ConfiguredMax[1], ConfiguredMax[2])
            /\ page.image_data.w = page.size.width
            /\ page.image_data.h = page.size.height
            /\ \A q \in 1 .. Len(atlases) : atlases[q].size = page.size

\* maximum 3 x 2 with power-of-two sizing: two pages of 4 x 2, each with
\* a sprite
C23_Witness ==
    /\ power_of_two(options)
    /\ ConfiguredMax = <<3, 2>>
    /\ Len(atlases) = 2
    /\ atlases[1].size = Size(4, 2)
    /\ atlases[2].size = Size(4, 2)
    /\ atlases[1].sprites # <<>>
    /\ atlases[2].sprites # <<>>

\* the name of each item of a list: the files of a list have distinct names
NamesOf(item_list) == [i \in 1 .. Len(item_list) |-> item_list[i].sprite.name]

\* the rect the packer gave a placed sprite: its rect with the padding
PaddedRect(packed_sprite) ==
    Rect(packed_sprite.rect.x - padding(options), packed_sprite.rect.y - padding(options),
         packed_sprite.rect.width + 2 * padding(options),
         packed_sprite.rect.height + 2 * padding(options))

\* a rect of this size has a place on the page clear of the rects `taken`
HasRoom(page_size, size, taken) ==
    \E x \in 0 .. (page_size.width - size.width) :
        \E y \in 0 .. (page_size.height - size.height) :
            \A r \in taken : Disjoint(Rect(x, y, size.width, size.height), r)

\* C24: in one page pass every item handed to the pass is either placed on
\* the page or deferred; an item is deferred only when the page has no room
\* for it beside the items placed before it, so an item that cannot be
\* placed takes no later item with it; the deferred items are handed to the
\* next pass in their original relative order.
C24_DeferredAloneInOrder ==
    [][Len(atlases') = Len(atlases) + 1 =>
          LET before == NamesOf(remaining_items)
              page == atlases'[Len(atlases')]
              placed == NamesOf([k \in 1 .. Len(page.sprites) |-> page.sprites[k].item])
              after == NamesOf(remaining_items')
              PlacedAt(i) == {k \in 1 .. Len(placed) : placed[k] = before[i]}
              DeferredAt(i) == {k \in 1 .. Len(after) : after[k] = before[i]}
          IN  /\ Len(placed) + Len(after) = Len(before)
              /\ \A i \in 1 .. Len(before) :
                     Cardinality(PlacedAt(i)) + Cardinality(DeferredAt(i)) = 1
              /\ \A i, j \in 1 .. Len(before) :
                     \A k \in DeferredAt(i) : \A l \in DeferredAt(j) :
                         i < j => k < l
              /\ \A i \in 1 .. Len(before) :
                     \A k \in DeferredAt(i) :
                         LET size == remaining_items'[k].sprite.size
                             taken == {PaddedRect(page.sprites[m]) :
                                          m \in UNION {PlacedAt(h) : h \in 1 .. (i - 1)}}
                         IN  ~HasRoom(page.size,
                                      Size(size.width + 2 * padding(options),
                                           size.height + 2 * padding(options)),
                                      taken)
    ]_vars

\* the first pass places the first and the third item of the sorted list
\* and defers the second alone
C24_Witness ==
    /\ Len(sprites) = 3
    /\ Len(atlases) = 1
    /\ NamesOf([k \in 1 .. Len(atlases[1].sprites) |-> atlases[1].sprites[k].item])
           = <<sprites[1].sprite.name, sprites[3].sprite.name>>
    /\ NamesOf(remaining_items) = <<sprites[2].sprite.name>>

-----------------------------------------------------------------------------
(* Properties of the entry and the exit of pack_assets *)

\* C25: with packing not enabled pack_assets fails with the configuration
\* error that names the input, whatever the asset list, the empty one
\* included, and no asset is decoded, nothing is sorted, validated or packed.
C25_DisabledFailsFirst ==
    /\ ~options.enabled =>
           /\ sprites = <<>>
           /\ remaining_items = <<>>
           /\ atlases = <<>>
           /\ pc \in {"start", "done"}
           /\ pc = "done" =>
                  /\ FailedWith("NotEnabled")
                  /\ result.error[1].input_name = InputName
                  /\ result.value = None
    /\ FailedWith("NotEnabled") => ~options.enabled

\* a disabled call on a list whose first asset does not decode fails with
\* the configuration error, not with the decoding error
C25_Witness ==
    /\ ~options.enabled
    /\ FailedWith("NotEnabled")
    /\ Len(assets) = 2
    /\ assets[1].ty = "Image"
    /\ ~assets[1].data.valid

\* the page index and the placed sprite of every manifest entry, in the
\* order create_manifest walks the atlases
RECURSIVE PlacedWithPage(_)
PlacedWithPage(atlas_list) ==
    IF atlas_list = <<>> THEN <<>>
    ELSE [k \in 1 .. Len(Head(atlas_list).sprites) |->
             [page_index |-> Head(atlas_list).page_index,
              packed_sprite |-> Head(atlas_list).sprites[k]]]
         \o PlacedWithPage(Tail(atlas_list))

\* C26: the atlases carry page_index 0, 1, ..., n-1 in the order they are
\* made and returned, and every manifest entry carries the page_index of
\* the atlas whose sprite list holds its item.
C26_PageIndexSequence ==
    /\ \A p \in 1 .. Len(atlases) : atlases[p].page_index = p - 1
    /\ Returned =>
           LET returned == result.value[1].atlases
               entries == result.value[1].manifest.sprites
               placed == PlacedWithPage(returned)
           IN  /\ \A p \in 1 .. Len(returned) : returned[p].page_index = p - 1
               /\ Len(entries) = Len(placed)
               /\ \A k \in 1 .. Len(entries) :
                      /\ entries[k].name = placed[k].packed_sprite.item.sprite.name
                      /\ entries[k].rect = placed[k].packed_sprite.rect
                      /\ entries[k].page_index = placed[k].page_index

\* two pages with one sprite each: entries of page_index 0 and 1
C26_Witness ==
    /\ Returned
    /\ Len(result.value[1].atlases) = 2
    /\ Len(result.value[1].manifest.sprites) = 2
    /\ result.value[1].manifest.sprites[1].page_index = 0
    /\ result.value[1].manifest.sprites[2].page_index = 1
    /\ result.value[1].atlases[2].page_index = 1

NoImageAsset == \A i \in 1 .. Len(assets) : assets[i].ty # "Image"

\* the early return of pack_assets: no page, the manifest of the input
\* without entries, and neither sort nor validation nor page loop entered
EmptyResultOnly ==
    /\ sprites = <<>>
    /\ remaining_items = <<>>
    /\ atlases = <<>>
    /\ pc \in {"start", "convert", "done"}
    /\ pc = "done" =>
           /\ Returned
           /\ result.value[1].atlases = <<>>
           /\ result.value[1].manifest.input_name = InputName
           /\ result.value[1].manifest.sprites = <<>>

\* C28 as stated: with packing enabled and an asset list that is empty or
\* holds non-image assets only, pack_assets succeeds with zero atlases and
\* an empty manifest for the input name, without validation and without the
\* page-limit check, also when the page limit is 0.
C28_NoImagesEmptyResult ==
    (options.enabled /\ NoImageAsset) => EmptyResultOnly

\* C28 amended: the same, unless the mode is animated with a frame pattern
\* that does not compile; then pack_assets fails with the pattern error.
C28_NoItemsEmptyResult ==
    /\ (options.enabled /\ NoImageAsset /\ ~PatternInvalid) => EmptyResultOnly
    /\ (options.enabled /\ NoImageAsset /\ PatternInvalid /\ pc = "done") =>
           FailedWith("InvalidFramePattern")

\* a list of one non-image asset under page limit 0: Ok without a page
C28_Witness ==
    /\ options.enabled
    /\ Len(assets) = 1
    /\ assets[1].ty = "Other"
    /\ page_limit(options) = Some(0)
    /\ Returned
    /\ result.value[1].atlases = <<>>
    /\ result.value[1].manifest.sprites = <<>>

-----------------------------------------------------------------------------
(* Properties of the options of animated mode *)

\* C27: in animated mode every page is 2048 x 2048, a run that has packed
\* all items is never failed for its page count, the items are sorted by
\* descending area (names break ties), every image asset outside a combined
\* group is an item of its own whatever its hash, and no placed sprite is
\* trimmed; the padding and the extrude width are those of the animated
\* options: sprites keep `padding` pixels from the page border and twice
\* that from each other, and the e-th pixel left of a sprite's top-left
\* pixel is a copy of it exactly for e up to `extrude`.
C27_AnimatedOptionsFixed ==
    AnimatedMode =>
        /\ \A p \in 1 .. Len(atlases) : atlases[p].size = Size(2048, 2048)
        /\ LimitChecked => ~Failed
        /\ ~FailedWith("PageLimit")
        /\ Sorted =>
               \A i \in 1 .. (Len(sprites) - 1) :
                   /\ Area(sprites[i].sprite) >= Area(sprites[i + 1].sprite)
                   /\ Area(sprites[i].sprite) = Area(sprites[i + 1].sprite) =>
                          NameLeq(sprites[i].sprite, sprites[i + 1].sprite)
        /\ sprites # <<>> =>
               \A i \in ImageAssets :
                   (~Matches(i) \/ NameOf(i) \in Dissolved) =>
                       Cardinality(StaticsOf(i)) = 1
        /\ \A p \in 1 .. Len(atlases) :
               \A k \in 1 .. Len(atlases[p].sprites) :
                   LET packed_sprite == atlases[p].sprites[k]
                       rect == packed_sprite.rect
                       data == packed_sprite.item.sprite.data
                   IN  /\ ~packed_sprite.trimmed
                       /\ packed_sprite.sprite_source_size = None
                       /\ packed_sprite.item = sprites[SourceOf(packed_sprite.item)]
                       /\ rect.x >= options.mode.padding
                       /\ rect.y >= options.mode.padding
                       /\ \A l \in 1 .. Len(atlases[p].sprites) :
                              l # k => Disjoint(PaddedRect(packed_sprite),
                                                PaddedRect(atlases[p].sprites[l]))
                       /\ options.mode.extrude <= options.mode.padding =>
                              \A e \in 1 .. options.mode.padding :
                                  <<rect.x - e, rect.y>> \in atlases[p].image_data.opaque
                                      <=> (e <= options.mode.extrude
                                              /\ <<0, 0>> \in data.opaque)

\* "w_1" and "y_1" with min_frames 2, padding 2 and extrude 1: two Static
\* items on one page, "w_1" untrimmed at (2, 2) with one extruded pixel to
\* its left
C27_Witness ==
    /\ AnimatedMode
    /\ options.mode.padding = 2
    /\ options.mode.extrude = 1
    /\ Len(atlases) = 1
    /\ Len(atlases[1].sprites) = 2
    /\ atlases[1].size = Size(2048, 2048)
    /\ atlases[1].sprites[1].item.sprite.data = Image(2, 1, {<<0, 0>>})
    /\ atlases[1].sprites[1].rect = Rect(2, 2, 2, 1)
    /\ <<1, 2>> \in atlases[1].image_data.opaque
    /\ <<0, 2>> \notin atlases[1].image_data.opaque
    /\ Returned

-----------------------------------------------------------------------------
(* Properties of the polling loop of upload_cloud *)

\* 2^k
RECURSIVE TwoToThe(_)
TwoToThe(k) == IF k = 0 THEN 1 ELSE 2 * TwoToThe(k - 1)

\* the sleeps so far are 10 ms * 2^k capped at 5 s, for k = 0, 1, 2, ...
WaitsDoubleToCap ==
    \A k \in 0..(Len(waits) - 1) :
        /\ waits[k + 1] = Min(10 * TwoToThe(k), 5000)
        /\ waits[k + 1] <= 5000

\* the answers on which the loop goes round again: not done, done without
\* a response, HTTP 404, HTTP 429
Retryable(op) ==
    \/ op.type = "Ok" /\ op.done # Some(TRUE)
    \/ op.type = "Ok" /\ op.done = Some(TRUE) /\ op.response = None
    \/ op.type = "HttpStatusError" /\ op.code = 404
    \/ op.type = "HttpStatusError" /\ op.code = 429

\* done with a response
Finished(op) == op.type = "Ok" /\ op.done = Some(TRUE) /\ op.response # None

\* after a retryable answer the loop has slept and has not ended, however
\* many times it has gone round
KeepsPolling ==
    (poll # None /\ Retryable(poll[1].operation)) =>
        /\ upload_result = Pending
        /\ waits # <<>>
        /\ backoff = Min(2 * waits[Len(waits)], 5000)

\* C29 (as stated): the wait before retry k (k = 0 for the first) is
\* min(10 ms * 2^k, 5 s) and never above 5 s; the loop keeps polling, with no
\* limit, while the operation is not done, is done without a response, or
\* the poll returns HTTP 404 or 429; and it ends only with the asset id of
\* the response when the operation is done with a response, or with an
\* error on any other poll failure.
C29_BackoffAndExits ==
    /\ WaitsDoubleToCap
    /\ KeepsPolling
    /\ (upload_result # Pending) =>
          /\ poll # None
          /\ LET op == poll[1].operation
             IN  IF Finished(op)
                 THEN /\ ParseU64(op.response[1].asset_id) # None
                      /\ upload_result = Ok(ParseU64(op.response[1].asset_id)[1])
                 ELSE /\ ~Retryable(op)
                      /\ upload_result.kind = "Err"

\* C29 (amended): as above, but a poll that finds the operation done with a
\* response ends the loop with an error when the asset id of the response
\* is not a number, with what get_image_id yields when the asset is a
\* decal, and with the asset id of the response otherwise.
C29_BackoffAndExitsByKind ==
    /\ WaitsDoubleToCap
    /\ KeepsPolling
    /\ (upload_result # Pending) =>
          /\ poll # None
          /\ LET op == poll[1].operation
                 id == ParseU64(op.response[1].asset_id)
             IN  IF Finished(op)
                 THEN IF id = None
                      THEN /\ upload_result.kind = "Err"
                           /\ poll[1].image = None
                      ELSE IF upload_kind = "Decal"
                      THEN /\ poll[1].image # None
                           /\ upload_result = GetImageId(poll[1].image[1])
                      ELSE /\ upload_result = Ok(id[1])
                           /\ poll[1].image = None
                 ELSE /\ ~Retryable(op)
                      /\ upload_result.kind = "Err"

\* a decal whose operation is done with response "42" after the wait has
\* reached 5 s, and whose image id is 41
C29_Witness ==
    /\ Len(waits) >= 10
    /\ waits[9] = 2560
    /\ waits[10] = 5000
    /\ upload_kind = "Decal"
    /\ poll # None
    /\ Finished(poll[1].operation)
    /\ poll[1].operation.response[1].asset_id = <<52, 50>>
    /\ upload_result = Ok(41)

-----------------------------------------------------------------------------
(* Properties of the file effects of migrate_config *)

\* no file has changed and no file operation has taken effect
NoFileEffect == file_system = old_file_system /\ fs_ops = <<>>

\* the input file as it was when migrate_config was called
InputContent == old_file_system[FileOf(migrate_args[1].input_path)]

\* the input already parses as the new format
AlreadyNew == InputContent # None /\ InputContent[1].shape = "new"

\* the input cannot be read, does not parse, or does not convert to a Config
ConversionFails ==
    \/ InputContent = None
    \/ InputContent[1].shape \in {"garbage", "other"}

\* the path the file is written to
WrittenPath ==
    IF migrate_args[1].output_path = None
    THEN migrate_args[1].input_path
    ELSE migrate_args[1].output_path[1]

\* the name of the backup: the input name with ".old" appended, after
\* ".toml" when the name has no extension
BackupName ==
    LET name == migrate_args[1].input_path.name
    IN  IF Len(name) >= 2 THEN name \o <<"old">> ELSE name \o <<"toml", "old">>

\* C30: migrate_config writes the output file only on the non-dry-run path
\* on which everything before the write succeeded: with dry_run set, or
\* when the input already parses as the new format and force is not set,
\* or when parsing or conversion fails, no file is written and no backup
\* is created; when output equals input and the migration proceeds, the
\* backup copy of the input is made before the file is overwritten.
C30_WritesOnlyWhenMigrating ==
    migrate_args # None =>
        /\ migrate_args[1].dry_run => NoFileEffect
        /\ (AlreadyNew /\ ~migrate_args[1].force) => NoFileEffect
        /\ ConversionFails => NoFileEffect
        /\ ~NoFileEffect =>
              /\ migrate_pc \in {"write", "done"}
              /\ InputContent # None
              /\ InputContent[1].shape \in {"old", "new"}
              /\ \/ Len(WrittenPath.name) = 1
                 \/ WrittenPath.name[Len(WrittenPath.name)]
                        \in {"toml", "json", "json5", "jsonc"}
        /\ migrate_result.kind = "Err" =>
              \/ file_system[FileOf(WrittenPath)] = old_file_system[FileOf(WrittenPath)]
              \/ /\ fs_ops[Len(fs_ops)].op = "write"
                 /\ file_system[FileOf(WrittenPath)][1].shape = "garbage"
        /\ migrate_result.kind = "Ok" =>
              \/ migrate_args[1].dry_run
              \/ /\ fs_ops # <<>>
                 /\ fs_ops[Len(fs_ops)] = FsOp("write", FileOf(WrittenPath),
                                               FileOf(WrittenPath))
                 /\ file_system[FileOf(WrittenPath)] # None
                 /\ file_system[FileOf(WrittenPath)][1].shape = "new"
        /\ \A j \in 1..Len(fs_ops) :
              /\ fs_ops[j].op = "write" => fs_ops[j].to = FileOf(WrittenPath)
              /\ fs_ops[j].op = "copy" =>
                    /\ WrittenPath = migrate_args[1].input_path
                    /\ j = 1
                    /\ fs_ops[j].to = BackupName
              /\ (fs_ops[j].op = "write" /\ WrittenPath = migrate_args[1].input_path) =>
                    /\ j = 2
                    /\ fs_ops[1] = FsOp("copy", FileOf(WrittenPath), BackupName)
                    /\ file_system[BackupName] = InputContent
        /\ (WrittenPath = migrate_args[1].input_path /\ migrate_pc = "write") =>
              /\ file_system[BackupName] = InputContent
              /\ file_system[FileOf(WrittenPath)] = InputContent

\* asphalt.toml in the old format migrated in place: the old content is in
\* asphalt.toml.old and the new format in asphalt.toml
C30_Witness ==
    /\ migrate_args # None
    /\ migrate_args[1].input_path = ConfigPath("", <<"asphalt", "toml">>)
    /\ migrate_args[1].output_path = None
    /\ ~migrate_args[1].dry_run
    /\ migrate_result = Ok(Unit)
    /\ Len(fs_ops) = 2
    /\ fs_ops[1].op = "copy"
    /\ fs_ops[2].op = "write"
    /\ file_system[<<"asphalt", "toml", "old">>] = Some(Document("old", "toml"))
    /\ file_system[<<"asphalt", "toml">>] = Some(Document("new", "toml"))


====
